---- MODULE Spec2Model ----
(***************************************************************************)
(* Session lifecycle reconciliation and usage accounting of A.R.I.S.       *)
(*                                                                         *)
(* The durable store (nodes, gpus, users, sessions, usage logs) is the     *)
(* state.  One action per operation: the agent-facing handlers of          *)
(* GpuService behind their routes (register, session start, heartbeat,     *)
(* end), the reservation registry's reserve call, the admin add-user       *)
(* command, the Sweeper's sweep_once, and the passing of wall-clock time.  *)
(* Every handler runs as one transaction: it either commits all its        *)
(* writes or, on an early return or an exception, leaves the store as it   *)
(* was (get_db closes the session without a commit).                       *)
(*                                                                         *)
(* Identities: a node's id is its hostname, a gpu's id its uuid, a user's  *)
(* id its gpu_node_username, a session's id its position in `sessions`.    *)
(* Timestamps are seconds; None is NoTs.                                   *)
(*                                                                         *)
(* `inflight` holds the transactions that have read but not yet committed. *)
(* In Spec and RegSpec every operation reads and commits in one step (the  *)
(* serial executions); RaceSpec lets two request workers and the Sweeper   *)
(* overlap.                                                                *)
(*                                                                         *)
(* `agent` holds the locals of the node agent's main_loop; only AgentSpec   *)
(* runs the agent, the other specifications take reports from any caller.  *)
(***************************************************************************)
EXTENDS Integers, Sequences, FiniteSets, TLC

VARIABLES now, nodes, gpus, users, sessions, logs, inflight, agent

vars == <<now, nodes, gpus, users, sessions, logs, inflight, agent>>

\* ---------------------------------------------------------------- bounds
\* Granularity of the timestamps in the explored runs (seconds).
Step == 30
\* Clock readings explored after the first; the clock advances two Steps a tick.
MaxTick == 3
\* A report is delivered at most this many Steps after it was stamped.
MaxDelay == 1
\* Rows the gpu_sessions table may hold in the explored runs.
MaxSessions == 2
\* Largest device index nvidia-smi reports in the registration runs.
MaxIndex == 1
\* Iterations of the agent's loop within the explored clock readings.
MaxPolls == 12

Hosts == {"h1"}
GpuUuids == {"g1", "g2"}
\* The devices session starts are reported for.
StartGpus == {"g1"}
Users == {"u1"}

TickSecs == 2 * Step
MaxTime == TickSecs * MaxTick

\* The timestamps a report delivered at time t may carry.
Stamps(t) == { t - d * Step : d \in 0..MaxDelay } \cap Nat

\* ------------------------------------------------------------- constants
\* None of a nullable column.
NoTs == -1
\* Seconds per minute in the minute accounting (`// 60`).
SECS_PER_MIN == 60
\* The staleness threshold: cfg.STALE_SECS of the Sweeper, with the value of
\* settings.STALE_HEARTBEAT_SECS (the Sweeper's own config module is not among
\* the sources).
STALE_SECS == 60
\* cfg.RESERVATION_MINUTES_ALLOWED of the reservation call: the reservation
\* lengths (minutes) api_reserve accepts; short ones, so that a reservation
\* expires within the explored clock readings.
RESERVATION_MINUTES_ALLOWED == {1, 2}

RESERVED == "reserved"
RUNNING == "running"
ENDED == "ended"

\* UsageLog tags: UsageTag.NORMAL / UsageTag.RESERVED of the service, and the
\* Sweeper's "running".
TAG_NORMAL == "normal"
TAG_RESERVED == "reserved"
TAG_RUNNING == "running"

Max(a, b) == IF a >= b THEN a ELSE b

\* None (or an empty / zero value, equally falsy) of a gpu's name and memory.
NoName == ""
NoMem == 0

NoGpu == [node |-> "", index |-> -1, name |-> NoName,
          total_memory_mb |-> NoMem]

\* The index nvidia-smi reports for a device of the host.
GpuIndexOf(uuid) == IF uuid = "g1" THEN 0 ELSE 1

\* AgentGpuInfo of a device as nvidia-smi describes it.
GpuInfo(uuid) ==
    [uuid |-> uuid, index |-> GpuIndexOf(uuid), name |-> "A100",
     total_memory_mb |-> 40]

\* gpu lists an agent registers: the devices nvidia-smi lists, in index order.
RegisterLists == { << GpuInfo("g1") >> }

\* What nvidia-smi may report of a device over time: its index on the host
\* (renumbered when cards are added, removed or moved), its name, and its
\* memory (None when the memory query fails).
GpuInfos ==
    { [uuid |-> u, index |-> i, name |-> n, total_memory_mb |-> m] :
        u \in GpuUuids, i \in 0..MaxIndex, n \in {"A100", "A6000"},
        m \in {NoMem, 40} }

\* The gpu lists an agent may register in the registration runs: one or two
\* distinct devices in index order.
DeviceLists ==
    { << a >> : a \in GpuInfos }
    \cup { l \in { << a, b >> : a \in GpuInfos, b \in GpuInfos } :
             l[2].uuid # l[1].uuid /\ l[2].index > l[1].index }

\* The orders in which the rows of table gpus may sort by primary key (a
\* random uuid4 string): the order in which a flush emits their UPDATEs.
PkOrders ==
    { o \in [1..Cardinality(GpuUuids) -> GpuUuids] :
        \A i, j \in DOMAIN o : i # j => o[i] # o[j] }

\* The (gpu, user) keys an agent may hold, in the order it lists them, and the
\* heartbeat batches it builds from them: one item per key it currently sees,
\* all stamped with the same ts.
BatchKeys == << <<"g1", "u1">>, <<"g1", "u2">>, <<"g2", "u1">> >>

RECURSIVE BatchOf(_, _, _)
BatchOf(K, t, i) ==
    IF i > Len(BatchKeys) THEN << >>
    ELSE (IF i \in K
          THEN << [gpu_uuid |-> BatchKeys[i][1], user |-> BatchKeys[i][2],
                   ts |-> t] >>
          ELSE << >>) \o BatchOf(K, t, i + 1)

HeartbeatBatches(t) ==
    { BatchOf(K, t, 1) : K \in (SUBSET (1..Len(BatchKeys))) \ {{}} }

\* The processes that hold database transactions: two request workers of the
\* service and the Sweeper.
RequestWorkers == {"w1", "w2"}
SweeperProc == "sweeper"
Workers == RequestWorkers \cup {SweeperProc}

\* No transaction open.
Idle == [op |-> "idle"]

\* ------------------------------------------------------------ node agent
\* The (gpu_uuid, user) keys the agent's snapshots may hold.
AgentKeys == StartGpus \X Users
\* GPU_AGENT_HOSTNAME: the node the agent runs on.
HOSTNAME == CHOOSE h \in Hosts : TRUE
\* A key that is not in the agent's `sessions` dict.
NoLocal == [started_at |-> NoTs, last_seen |-> NoTs]
\* The locals of main_loop before its first iteration; ts, current_keys and
\* posted are the timestamp, the key set and the requests of the iteration
\* that ran last.
AgentStart ==
    [sessions |-> [k \in AgentKeys |-> NoLocal],
     registered_ok |-> FALSE, last_register_ts |-> NoTs,
     ts |-> NoTs, current_keys |-> {}, posted |-> << >>]

\* ---------------------------------------------------------------- store
Store == [nodes |-> nodes, gpus |-> gpus, users |-> users,
          sessions |-> sessions, logs |-> logs]

GpuKnown(st, uuid) == st.gpus[uuid] # NoGpu

\* UniqueConstraint("node_id", "index") of table gpus.
GpuIndexUnique(gs) ==
    \A a, b \in GpuUuids :
        (a # b /\ gs[a] # NoGpu /\ gs[b] # NoGpu) =>
            ~(gs[a].node = gs[b].node /\ gs[a].index = gs[b].index)

NewSession(user, gpu, node, state, rfrom, runtil, started, hb, by, note) ==
    [user |-> user, gpu |-> gpu, node |-> node, state |-> state,
     reserved_from |-> rfrom, reserved_until |-> runtil,
     started_at |-> started, heartbeat_at |-> hb, ended_at |-> NoTs,
     created_by |-> by, note |-> note]

NewLog(sid, user, gpu, start, end, minutes, tag) ==
    [session_id |-> sid, user |-> user, gpu |-> gpu,
     start_ts |-> start, end_ts |-> end, minutes |-> minutes, tag |-> tag]

\* Responses: what the caller of the route receives.
RespOk(sid) == [code |-> 200, ok |-> TRUE, detail |-> "", session_id |-> sid]
RespFail(code, detail) ==
    [code |-> code, ok |-> FALSE, detail |-> detail, session_id |-> 0]

\* ensure_user_for_gpu_username: a username with no active User row gets one
\* (added and flushed) and is announced on the event bus as user.new_from_gpu
\* before the handler goes on; the usernames announced.
NewFromGpu(st, username) == IF username \in st.users THEN {} ELSE {username}

\* The user.new_from_gpu events a handler published before it returned.
EventsOf(out) == IF "events" \in DOMAIN out THEN out.events ELSE {}

\* An unhandled exception: the transaction is never committed.
Raised(st, detail) == [store |-> st, resp |-> RespFail(500, detail)]

\* ------------------------------------------------------ minute accounting
\* Mutant of ReservedSliceMinutes: the slice is rounded up.
ReservedSliceMinutes_Ceil(rfrom, t) ==
    Max(0, -((rfrom - t) \div SECS_PER_MIN))

\* int(max(0, (started_at - reserved_from).total_seconds() // 60))
ReservedSliceMinutes(rfrom, t) == Max(0, (t - rfrom) \div SECS_PER_MIN)

\* Mutant of EndMinutes: the started minute is charged on top of the full ones.
EndMinutes_PlusOne(started, ended) ==
    Max(1, (ended - started) \div SECS_PER_MIN + 1)

\* Mutant of EndMinutes: no minimum charge.
EndMinutes_NoMinimum(started, ended) == (ended - started) \div SECS_PER_MIN

\* max(1, int(total_secs // 60))
EndMinutes(started, ended) == Max(1, (ended - started) \div SECS_PER_MIN)

\* Mutant of SweepElapsed: the Sweeper charges a minimum of one minute.
SweepElapsed_Minimum(start, end) == Max(1, (end - start) \div SECS_PER_MIN)

\* int((end - start).total_seconds() // 60)
SweepElapsed(start, end) == (end - start) \div SECS_PER_MIN

\* ------------------------------------------------------------- register
\* The work of a transaction on table gpus: db is the table as the
\* transaction's statements have left it, obj the loaded rows with their
\* pending attribute changes (autoflush is off: a change reaches db only at a
\* flush), ok is FALSE once a statement has failed.
\*
\* A flush emits the pending UPDATEs, one statement per changed row in
\* primary-key order ord, from position i on; each statement must satisfy the
\* unique constraint on (node_id, index) against the rows as they are then.
RECURSIVE FlushUpdates(_, _, _, _)
FlushUpdates(db, obj, ord, i) ==
    IF i > Len(ord) THEN [ok |-> TRUE, gpus |-> db]
    ELSE LET u == ord[i]
             db1 == [db EXCEPT ![u] = obj[u]]
         IN IF db[u] = NoGpu \/ obj[u] = db[u]
            THEN FlushUpdates(db, obj, ord, i + 1)
            ELSE IF ~GpuIndexUnique(db1)
            THEN [ok |-> FALSE, gpus |-> db]
            ELSE FlushUpdates(db1, obj, ord, i + 1)

\* _get_or_create_gpu: an unknown uuid is inserted and flushed at once (the
\* flush emits the pending UPDATEs first, then the INSERT); a known row gets
\* node_id and index assigned, and name / total_memory_mb when the info
\* carries them.
get_or_create_gpu(tx, host, info, ord) ==
    IF tx.db[info.uuid] = NoGpu
    THEN LET f == FlushUpdates(tx.db, tx.obj, ord, 1)
             row == [node |-> host, index |-> info.index, name |-> info.name,
                     total_memory_mb |-> info.total_memory_mb]
             db1 == [f.gpus EXCEPT ![info.uuid] = row]
         IN IF ~f.ok \/ ~GpuIndexUnique(db1)
            THEN [tx EXCEPT !.ok = FALSE]
            ELSE [ok |-> TRUE, db |-> db1, obj |-> db1]
    ELSE [tx EXCEPT !.obj[info.uuid] =
            [node |-> host, index |-> info.index,
             name |-> IF info.name # NoName THEN info.name ELSE @.name,
             total_memory_mb |-> IF info.total_memory_mb # NoMem
                                 THEN info.total_memory_mb
                                 ELSE @.total_memory_mb]]

\* The loop of handle_register over payload.gpus from position i on.
RECURSIVE RegisterGpus(_, _, _, _, _)
RegisterGpus(tx, host, list, ord, i) ==
    IF i > Len(list) \/ ~tx.ok THEN tx
    ELSE RegisterGpus(get_or_create_gpu(tx, host, list[i], ord),
                      host, list, ord, i + 1)

\* The response of handle_register: the ids of the node and of the gpus listed.
RegisterResp(p) ==
    [code |-> 200, ok |-> TRUE, node_id |-> p.hostname,
     gpu_mapping |-> { p.gpus[i].uuid : i \in 1..Len(p.gpus) }]

handle_register(st, p, ord) ==
    LET tx == RegisterGpus([ok |-> TRUE, db |-> st.gpus, obj |-> st.gpus],
                           p.hostname, p.gpus, ord, 1)
        f == FlushUpdates(tx.db, tx.obj, ord, 1)
    IN IF ~tx.ok \/ ~f.ok
       THEN Raised(st, "IntegrityError")
       ELSE [store |-> [st EXCEPT !.nodes = @ \cup {p.hostname},
                                  !.gpus = f.gpus],
             resp |-> RegisterResp(p)]

\* Mutant of ReservedCovering: the window has no upper bound.
ReservedCovering_Open(st, user, gpu, t) ==
    { i \in 1..Len(st.sessions) :
        /\ st.sessions[i].user = user
        /\ st.sessions[i].gpu = gpu
        /\ st.sessions[i].state = RESERVED
        /\ st.sessions[i].reserved_from <= t }

\* Mutant of ReservedCovering: both bounds of the window are exclusive.
ReservedCovering_Strict(st, user, gpu, t) ==
    { i \in 1..Len(st.sessions) :
        /\ st.sessions[i].user = user
        /\ st.sessions[i].gpu = gpu
        /\ st.sessions[i].state = RESERVED
        /\ st.sessions[i].reserved_until > t
        /\ st.sessions[i].reserved_from < t }

\* ------------------------------------------------------- session start
\* The RESERVED sessions of the pair whose window covers t.
ReservedCovering(st, user, gpu, t) ==
    { i \in 1..Len(st.sessions) :
        /\ st.sessions[i].user = user
        /\ st.sessions[i].gpu = gpu
        /\ st.sessions[i].state = RESERVED
        /\ st.sessions[i].reserved_until >= t
        /\ st.sessions[i].reserved_from <= t }

\* order_by(reserved_from.asc()).first(): the rows the query may return (0: none).
\* Among rows of equal reserved_from the database returns any one.
StartTargets(st, user, gpu, t) ==
    LET M == ReservedCovering(st, user, gpu, t)
    IN IF M = {} THEN {0}
       ELSE { i \in M : \A j \in M :
                st.sessions[i].reserved_from <= st.sessions[j].reserved_from }

handle_session_start(st, p, pick) ==
    LET t == p.started_at
        known == GpuKnown(st, p.gpu_uuid)
        gpus1 == IF known THEN st.gpus
                 ELSE [st.gpus EXCEPT ![p.gpu_uuid] =
                          [node |-> p.hostname, index |-> 0,
                           name |-> NoName, total_memory_mb |-> NoMem]]
    IN IF ~known /\ ~GpuIndexUnique(gpus1)
       THEN Raised(st, "IntegrityError")
       ELSE
         LET nodes1 == st.nodes \cup {p.hostname}
             users1 == st.users \cup {p.user}
         IN IF pick # 0
            THEN LET s == st.sessions[pick]
                     minutes == ReservedSliceMinutes(s.reserved_from, t)
                     logs1 == IF s.reserved_from # NoTs /\ s.reserved_from < t
                                 /\ minutes > 0
                              THEN Append(st.logs,
                                     NewLog(pick, p.user, p.gpu_uuid,
                                            s.reserved_from, t, minutes,
                                            TAG_RESERVED))
                              ELSE st.logs
                     sessions1 == [st.sessions EXCEPT ![pick] =
                                     [@ EXCEPT !.state = RUNNING,
                                               !.started_at = t,
                                               !.heartbeat_at = t]]
                 IN [store |-> [nodes |-> nodes1, gpus |-> gpus1,
                                users |-> users1, sessions |-> sessions1,
                                logs |-> logs1],
                     resp |-> RespOk(pick),
          events |-> NewFromGpu(st, p.user)]
            ELSE LET sess == NewSession(p.user, p.gpu_uuid, p.hostname,
                                        RUNNING, NoTs, NoTs, t, t, "agent", "")
                 IN [store |-> [nodes |-> nodes1, gpus |-> gpus1,
                                users |-> users1,
                                sessions |-> Append(st.sessions, sess),
                                logs |-> st.logs],
                     resp |-> RespOk(Len(st.sessions) + 1),
          events |-> NewFromGpu(st, p.user)]

\* --------------------------------------------- session heartbeat and end
\* Mutant of RunningOf: the query forgets the state filter.
RunningOf_AnyState(st, user, gpu) ==
    { i \in 1..Len(st.sessions) :
        /\ st.sessions[i].user = user
        /\ st.sessions[i].gpu = gpu }

\* Mutant of RunningOf: the user is not part of the filter.
RunningOf_AnyUser(st, user, gpu) ==
    { i \in 1..Len(st.sessions) :
        /\ st.sessions[i].gpu = gpu
        /\ st.sessions[i].state = RUNNING }

\* The RUNNING sessions of the pair.
RunningOf(st, user, gpu) ==
    { i \in 1..Len(st.sessions) :
        /\ st.sessions[i].user = user
        /\ st.sessions[i].gpu = gpu
        /\ st.sessions[i].state = RUNNING }

\* Mutant of LatestRunning: the order is ascending.
LatestRunning_Earliest(st, user, gpu) ==
    LET M == RunningOf(st, user, gpu)
    IN IF M = {} THEN {0}
       ELSE { i \in M : \A j \in M :
                st.sessions[i].started_at <= st.sessions[j].started_at }

\* order_by(started_at.desc()).first(): the rows the query may return (0: none).
LatestRunning(st, user, gpu) ==
    LET M == RunningOf(st, user, gpu)
    IN IF M = {} THEN {0}
       ELSE { i \in M : \A j \in M :
                st.sessions[i].started_at >= st.sessions[j].started_at }

\* Mutant of handle_session_heartbeat: for a GPU the store does not know, the
\* node row flushed by _get_or_create_node is committed together with a
\* placeholder GPU, as session_start does.
handle_session_heartbeat_Fabricate(st, p, pick) ==
    IF "gpu_uuid" \notin DOMAIN p
    THEN Raised(st, "AttributeError")
    ELSE IF ~GpuKnown(st, p.gpu_uuid)
    THEN [store |-> [st EXCEPT !.nodes = @ \cup {p.hostname},
                               !.gpus[p.gpu_uuid] =
                                  [node |-> p.hostname, index |-> 0,
                                   name |-> NoName, total_memory_mb |-> NoMem]],
          resp |-> RespFail(200, "unknown gpu")]
    ELSE [store |-> [st EXCEPT !.nodes = @ \cup {p.hostname},
                               !.users = @ \cup {p.user}],
          resp |-> RespOk(pick),
          events |-> NewFromGpu(st, p.user)]

\* The handler reads payload.gpu_uuid, payload.user and payload.ts: a payload
\* without these attributes (the batch request, which has hostname and items)
\* raises AttributeError at the first read.
handle_session_heartbeat(st, p, pick) ==
    IF "gpu_uuid" \notin DOMAIN p
    THEN Raised(st, "AttributeError")
    ELSE IF ~GpuKnown(st, p.gpu_uuid)
    THEN [store |-> st, resp |-> RespFail(200, "unknown gpu")]
    ELSE
      LET nodes1 == st.nodes \cup {p.hostname}
          users1 == st.users \cup {p.user}
      IN IF pick = 0
         THEN LET sess == NewSession(p.user, p.gpu_uuid, p.hostname, RUNNING,
                                     NoTs, NoTs, p.ts, p.ts, "agent",
                                     "auto-created by heartbeat")
              IN [store |-> [st EXCEPT !.nodes = nodes1, !.users = users1,
                                       !.sessions = Append(@, sess)],
                  resp |-> RespOk(Len(st.sessions) + 1),
          events |-> NewFromGpu(st, p.user)]
         ELSE [store |-> [st EXCEPT !.nodes = nodes1, !.users = users1,
                                    !.sessions[pick].heartbeat_at = p.ts],
               resp |-> RespOk(pick),
          events |-> NewFromGpu(st, p.user)]

\* Mutant of handle_session_end: the state change is committed and the
\* UsageLog row is lost.
handle_session_end_StateOnly(st, p, pick) ==
    IF ~GpuKnown(st, p.gpu_uuid) \/ pick = 0
    THEN [store |-> st, resp |-> RespFail(200, "no active session to end"),
          events |-> NewFromGpu(st, p.user)]
    ELSE [store |-> [st EXCEPT !.nodes = @ \cup {p.hostname},
                               !.users = @ \cup {p.user},
                               !.sessions[pick].state = ENDED,
                               !.sessions[pick].ended_at = p.ended_at,
                               !.sessions[pick].heartbeat_at = p.ended_at],
          resp |-> RespOk(pick),
          events |-> NewFromGpu(st, p.user)]

handle_session_end(st, p, pick) ==
    IF ~GpuKnown(st, p.gpu_uuid)
    THEN [store |-> st, resp |-> RespFail(200, "unknown gpu")]
    ELSE IF pick = 0
    THEN [store |-> st, resp |-> RespFail(200, "no active session to end"),
          events |-> NewFromGpu(st, p.user)]
    ELSE
      LET s == st.sessions[pick]
          ended_at == p.ended_at
          sessions1 == [st.sessions EXCEPT ![pick] =
                          [@ EXCEPT !.state = ENDED, !.ended_at = ended_at,
                                    !.heartbeat_at = ended_at]]
          logs1 == IF s.started_at # NoTs
                   THEN Append(st.logs,
                          NewLog(pick, p.user, p.gpu_uuid, s.started_at,
                                 ended_at, EndMinutes(s.started_at, ended_at),
                                 TAG_NORMAL))
                   ELSE st.logs
      IN [store |-> [st EXCEPT !.nodes = @ \cup {p.hostname},
                               !.users = @ \cup {p.user},
                               !.sessions = sessions1, !.logs = logs1],
          resp |-> RespOk(pick),
          events |-> NewFromGpu(st, p.user)]

\* -------------------------------------------------------------- sweeper
\* reserved_at + timedelta(minutes=reserve_minutes) is the session's
\* reserved_until.
ReservedExpired(s, t) == s.state = RESERVED /\ t > s.reserved_until

\* Mutant of RunningStale: the test on heartbeat_at is inverted.
RunningStale_NoHeartbeat(s, t) ==
    /\ s.state = RUNNING
    /\ s.heartbeat_at = NoTs

\* Mutant of RunningStale: a heartbeat exactly the threshold old is stale.
RunningStale_Inclusive(s, t) ==
    /\ s.state = RUNNING
    /\ s.heartbeat_at # NoTs
    /\ t - s.heartbeat_at >= STALE_SECS

RunningStale(s, t) ==
    /\ s.state = RUNNING
    /\ s.heartbeat_at # NoTs
    /\ t - s.heartbeat_at > STALE_SECS

\* Mutant of SweepReservedRow: the reservation is closed at the sweep time.
SweepReservedRow_AtSweepTime(s, t) ==
    IF ReservedExpired(s, t)
    THEN [s EXCEPT !.state = ENDED, !.ended_at = t]
    ELSE s

\* The row the first loop of sweep_once leaves for session s.
SweepReservedRow(s, t) ==
    IF ReservedExpired(s, t)
    THEN [s EXCEPT !.state = ENDED, !.ended_at = s.reserved_until]
    ELSE s

\* Mutant of StaleEnd: the stale session is closed at the sweep time.
StaleEnd_AtSweepTime(s, t) == t

\* The end timestamp of a stale close: end = sess.heartbeat_at.
StaleEnd(s, t) == s.heartbeat_at

\* The row the second loop of sweep_once leaves for session s.
SweepRunningRow(s, t) ==
    IF RunningStale(s, t)
    THEN [s EXCEPT !.state = ENDED, !.ended_at = StaleEnd(s, t)]
    ELSE s

\* The UsageLog rows of the first loop, for the sessions from position i on.
RECURSIVE SweepReservedLogs(_, _, _)
SweepReservedLogs(ss, t, i) ==
    IF i > Len(ss) THEN << >>
    ELSE LET s == ss[i]
             elapsed == SweepElapsed(s.reserved_from, s.reserved_until)
         IN (IF ReservedExpired(s, t) /\ elapsed > 0
             THEN << NewLog(i, s.user, s.gpu, s.reserved_from,
                            s.reserved_until, elapsed, TAG_RESERVED) >>
             ELSE << >>) \o SweepReservedLogs(ss, t, i + 1)

\* The UsageLog rows of the second loop, for the sessions from position i on.
RECURSIVE SweepRunningLogs(_, _, _)
SweepRunningLogs(ss, t, i) ==
    IF i > Len(ss) THEN << >>
    ELSE LET s == ss[i]
             end == StaleEnd(s, t)
             elapsed == SweepElapsed(s.started_at, end)
         IN (IF RunningStale(s, t) /\ elapsed > 0
             THEN << NewLog(i, s.user, s.gpu, s.started_at, end, elapsed,
                            TAG_RUNNING) >>
             ELSE << >>) \o SweepRunningLogs(ss, t, i + 1)

sweep_once(st, t) ==
    LET ss1 == [i \in 1..Len(st.sessions) |-> SweepReservedRow(st.sessions[i], t)]
        ss2 == [i \in 1..Len(ss1) |-> SweepRunningRow(ss1[i], t)]
    IN [st EXCEPT !.sessions = ss2,
                  !.logs = @ \o SweepReservedLogs(st.sessions, t, 1)
                             \o SweepRunningLogs(ss1, t, 1)]

\* --------------------------------------------------- reservation registry
ActiveOf(st, user, gpu) ==
    { i \in 1..Len(st.sessions) :
        /\ st.sessions[i].user = user
        /\ st.sessions[i].gpu = gpu
        /\ st.sessions[i].state # ENDED }

api_reserve(st, user, gpu, minutes, t) ==
    IF user \notin st.users \/ ~GpuKnown(st, gpu)
    THEN [store |-> st, resp |-> RespFail(400, "unknown user or gpu")]
    ELSE IF ActiveOf(st, user, gpu) # {}
    THEN [store |-> st, resp |-> RespFail(400, "already active")]
    ELSE [store |-> [st EXCEPT !.sessions = Append(@,
                       NewSession(user, gpu, st.gpus[gpu].node, RESERVED, t,
                                  t + minutes * SECS_PER_MIN, NoTs, NoTs,
                                  "", ""))],
          resp |-> RespOk(Len(st.sessions) + 1)]

\* --------------------------------------------------------------- routes
\* gpu_session_start and gpu_session_heartbeat turn a response that is not ok
\* into HTTP 403; gpu_session_end returns the response as it is.
Forbid(out) ==
    IF out.resp.code = 200 /\ ~out.resp.ok
    THEN [out EXCEPT !.resp.code = 403]
    ELSE out

\* gpu_register: the handler behind its route.
gpu_register(st, payload, ord) == Forbid(handle_register(st, payload, ord))

\* gpu_session_start: the handler behind its route.
gpu_session_start(st, payload, pick) ==
    Forbid(handle_session_start(st, payload, pick))

\* gpu_session_heartbeat: the route hands the request it parsed, an
\* AgentSessionHeartbeatRequest (hostname, items), to the handler.
gpu_session_heartbeat(st, payload, pick) ==
    Forbid(handle_session_heartbeat(st, payload, pick))

\* Mutant of gpu_session_end: a failure is raised as HTTP 403, as the start
\* and heartbeat routes do.
gpu_session_end_Forbid(st, payload, pick) ==
    Forbid(handle_session_end(st, payload, pick))

\* gpu_session_end: the response is returned as it is.
gpu_session_end(st, payload, pick) == handle_session_end(st, payload, pick)

Commit(out) ==
    /\ Len(out.store.sessions) <= MaxSessions
    /\ nodes' = out.store.nodes
    /\ gpus' = out.store.gpus
    /\ users' = out.store.users
    /\ sessions' = out.store.sessions
    /\ logs' = out.store.logs
    /\ UNCHANGED <<now, inflight, agent>>

\* --------------------------------------------------------------- actions
Init ==
    /\ now = 0
    /\ nodes = {}
    /\ gpus = [u \in GpuUuids |-> NoGpu]
    /\ users = {}
    /\ sessions = << >>
    /\ logs = << >>
    /\ inflight = [w \in Workers |-> Idle]
    /\ agent = AgentStart

Register ==
    \E h \in Hosts, l \in RegisterLists, ord \in PkOrders :
        Commit(gpu_register(Store, [hostname |-> h, gpus |-> l], ord))

SessionStart ==
    \E h \in Hosts, g \in StartGpus, u \in Users, t \in Stamps(now) :
        /\ \E pick \in StartTargets(Store, u, g, t) :
             Commit(gpu_session_start(Store,
                [hostname |-> h, gpu_uuid |-> g, user |-> u, started_at |-> t],
                pick))

\* One observation applied by handle_session_heartbeat: a payload of the shape
\* the handler's body reads (hostname, gpu_uuid, user, ts).
SessionHeartbeat ==
    \E h \in Hosts, g \in GpuUuids, u \in Users, t \in Stamps(now) :
        /\ \E pick \in LatestRunning(Store, u, g) :
             Commit(Forbid(handle_session_heartbeat(Store,
                [hostname |-> h, gpu_uuid |-> g, user |-> u, ts |-> t],
                pick)))

\* The agent's batched heartbeat request, through the route.
SessionHeartbeatBatch ==
    \E h \in Hosts, t \in Stamps(now) :
        \E b \in HeartbeatBatches(t) :
            Commit(gpu_session_heartbeat(Store,
                [hostname |-> h, items |-> b], 0))

SessionEnd ==
    \E h \in Hosts, g \in GpuUuids, u \in Users, t \in Stamps(now) :
        /\ \E pick \in LatestRunning(Store, u, g) :
             Commit(gpu_session_end(Store,
                [hostname |-> h, gpu_uuid |-> g, user |-> u, ended_at |-> t],
                pick))

Reserve ==
    \E u \in Users, g \in GpuUuids, m \in RESERVATION_MINUTES_ALLOWED :
        Commit(api_reserve(Store, u, g, m, now))

AddUser ==
    \E u \in Users :
        /\ users' = users \cup {u}
        /\ UNCHANGED <<now, nodes, gpus, sessions, logs, inflight, agent>>

Sweep ==
    LET st == sweep_once(Store, now)
    IN /\ sessions' = st.sessions
       /\ logs' = st.logs
       /\ UNCHANGED <<now, nodes, gpus, users, inflight, agent>>

Tick ==
    /\ now < MaxTime
    /\ now' = now + TickSecs
    /\ UNCHANGED <<nodes, gpus, users, sessions, logs, inflight, agent>>

Next ==
    \/ Register
    \/ SessionStart
    \/ SessionHeartbeat
    \/ SessionHeartbeatBatch
    \/ SessionEnd
    \/ Reserve
    \/ AddUser
    \/ Sweep
    \/ Tick

Spec == Init /\ [][Next]_vars

\* ------------------------------------------- runs without session_end
\* The agent's reports stop (its process or its node is gone) early enough
\* for the explored clock readings to pass the staleness threshold, and no
\* session_end ever arrives; the scheduler keeps calling sweep_once and time
\* keeps passing.
ReportsArrive == now + STALE_SECS < MaxTime

LiveNext ==
    \/ Register
    \/ ReportsArrive /\ SessionStart
    \/ ReportsArrive /\ SessionHeartbeat
    \/ Reserve
    \/ AddUser
    \/ Sweep
    \/ Tick

LiveSpec == Init /\ [][LiveNext]_vars /\ WF_vars(Sweep) /\ WF_vars(Tick)

\* ---------------------------------------------------- registration runs
\* Registrations of any device list and session starts on any device, in any
\* order, at one clock reading.
RegisterDevices ==
    \E h \in Hosts, l \in DeviceLists, ord \in PkOrders :
        Commit(gpu_register(Store, [hostname |-> h, gpus |-> l], ord))

StartAnyGpu ==
    \E h \in Hosts, g \in GpuUuids, u \in Users :
        \E pick \in StartTargets(Store, u, g, now) :
            Commit(gpu_session_start(Store,
                [hostname |-> h, gpu_uuid |-> g, user |-> u,
                 started_at |-> now], pick))

RegNext == RegisterDevices \/ StartAnyGpu

RegSpec == Init /\ [][RegNext]_vars

\* -------------------------------------------------- overlapping transactions
\* The transactions run at the database's default isolation (READ COMMITTED)
\* with no row lock and no version column: a transaction reads committed rows
\* when its queries run, and at commit its flush emits, for every row it
\* changed, one UPDATE of the changed columns addressed by primary key, and an
\* INSERT for every row it added.  Nothing rejects a writer whose rows were
\* changed by another transaction in between.

\* Row cur after the UPDATE of the columns in which new differs from snap.
MergeRow(cur, snap, new) ==
    [f \in DOMAIN cur |-> IF new[f] # snap[f] THEN new[f] ELSE cur[f]]

\* The store after a transaction that read the sessions snap, and computed
\* out from them, commits on the current store cur.
ApplyWrites(cur, snap, out) ==
    LET n == Len(snap)
        upd == [i \in 1..Len(cur.sessions) |->
                  IF i <= n
                  THEN MergeRow(cur.sessions[i], snap[i], out.store.sessions[i])
                  ELSE cur.sessions[i]]
        ins == SubSeq(out.store.sessions, n + 1, Len(out.store.sessions))
        rows == SubSeq(out.store.logs, Len(cur.logs) + 1, Len(out.store.logs))
    IN [nodes |-> out.store.nodes, gpus |-> out.store.gpus,
        users |-> out.store.users, sessions |-> upd \o ins,
        logs |-> cur.logs \o rows]

\* What the handler of a request computes from the rows it read.
RequestOutcome(st, r) ==
    IF r.op = "start" THEN gpu_session_start(st, r.payload, r.pick)
    ELSE IF r.op = "heartbeat"
    THEN Forbid(handle_session_heartbeat(st, r.payload, r.pick))
    ELSE gpu_session_end(st, r.payload, r.pick)

Busy == { w \in RequestWorkers : inflight[w] # Idle }

\* A worker takes a request and runs the handler's queries.
BeginRequest ==
    \E w \in RequestWorkers, h \in Hosts, g \in StartGpus, u \in Users :
        /\ inflight[w] = Idle
        /\ w = "w2" => inflight["w1"] # Idle
        /\ Len(sessions) + Cardinality(Busy) < MaxSessions
        /\ \/ \E pick \in StartTargets(Store, u, g, now) :
                inflight' = [inflight EXCEPT ![w] =
                    [op |-> "start", pick |-> pick, snap |-> sessions,
                     payload |-> [hostname |-> h, gpu_uuid |-> g, user |-> u,
                                  started_at |-> now]]]
           \/ \E pick \in LatestRunning(Store, u, g) :
                inflight' = [inflight EXCEPT ![w] =
                    [op |-> "heartbeat", pick |-> pick, snap |-> sessions,
                     payload |-> [hostname |-> h, gpu_uuid |-> g, user |-> u,
                                  ts |-> now]]]
           \/ \E pick \in LatestRunning(Store, u, g) :
                inflight' = [inflight EXCEPT ![w] =
                    [op |-> "end", pick |-> pick, snap |-> sessions,
                     payload |-> [hostname |-> h, gpu_uuid |-> g, user |-> u,
                                  ended_at |-> now]]]
        /\ UNCHANGED <<now, nodes, gpus, users, sessions, logs, agent>>

\* The worker's handler makes its changes and commits.
FinishRequest ==
    \E w \in RequestWorkers :
        /\ inflight[w] # Idle
        /\ LET r == inflight[w]
               out == RequestOutcome([Store EXCEPT !.sessions = r.snap], r)
               st == ApplyWrites(Store, r.snap, out)
           IN /\ nodes' = st.nodes
              /\ gpus' = st.gpus
              /\ users' = st.users
              /\ sessions' = st.sessions
              /\ logs' = st.logs
        /\ inflight' = [inflight EXCEPT ![w] = Idle]
        /\ UNCHANGED <<now, agent>>

\* sweep_once runs its two queries.
BeginSweep ==
    /\ inflight[SweeperProc] = Idle
    /\ inflight' = [inflight EXCEPT ![SweeperProc] =
                      [op |-> "sweep", t |-> now, snap |-> sessions]]
    /\ UNCHANGED <<now, nodes, gpus, users, sessions, logs, agent>>

\* sweep_once closes the rows it selected and commits.
FinishSweep ==
    /\ inflight[SweeperProc] # Idle
    /\ LET r == inflight[SweeperProc]
           st0 == [Store EXCEPT !.sessions = r.snap]
           st == ApplyWrites(Store, r.snap, [store |-> sweep_once(st0, r.t)])
       IN /\ sessions' = st.sessions
          /\ logs' = st.logs
    /\ inflight' = [inflight EXCEPT ![SweeperProc] = Idle]
    /\ UNCHANGED <<now, nodes, gpus, users, agent>>

\* The clock advances between transactions: a transaction is short next to
\* the spacing of the clock readings.
RaceTick ==
    /\ \A w \in Workers : inflight[w] = Idle
    /\ Tick

\* The store after the node's register and the user's creation.
RaceInit ==
    /\ now = 0
    /\ nodes = Hosts
    /\ gpus = [u \in GpuUuids |->
                IF u \in StartGpus
                THEN [node |-> CHOOSE h \in Hosts : TRUE,
                      index |-> GpuInfo(u).index, name |-> GpuInfo(u).name,
                      total_memory_mb |-> GpuInfo(u).total_memory_mb]
                ELSE NoGpu]
    /\ users = Users
    /\ sessions = << >>
    /\ logs = << >>
    /\ inflight = [w \in Workers |-> Idle]
    /\ agent = AgentStart

RaceNext ==
    \/ BeginRequest
    \/ FinishRequest
    \/ BeginSweep
    \/ FinishSweep
    \/ RaceTick

RaceSpec == RaceInit /\ [][RaceNext]_vars

\* ------------------------------------------------- collector (local poller)
\* One iteration of main_loop works on a snapshot of nvidia-smi: the
\* (gpu uuid, user) keys that own a compute process, in the order of the
\* tool's output.
CollectorSnapshots ==
    {<< >>} \cup { << <<g, u>> >> : g \in GpuUuids, u \in Users }
            \cup { l \in { << <<g, u>>, <<h, v>> >> :
                             g \in GpuUuids, u \in Users,
                             h \in GpuUuids, v \in Users } :
                     l[1][1] # l[2][1] }

\* The keys added to current_active_keys: those whose GPU row exists.
current_active_keys(st, snap) ==
    { snap[k] : k \in { j \in 1..Len(snap) : GpuKnown(st, snap[j][1]) } }

find_or_create_user(st, name) == [st EXCEPT !.users = @ \cup {name}]

\* The UsageLog rows log_reserved_slice adds for session sid.
log_reserved_slice(sid, sess, end_ts) ==
    LET until == sess.reserved_until
        reserved_end == IF end_ts < until THEN end_ts ELSE until
        elapsed == (reserved_end - sess.reserved_from) \div SECS_PER_MIN
    IN IF elapsed > 0
       THEN << NewLog(sid, sess.user, sess.gpu, sess.reserved_from,
                      reserved_end, elapsed, TAG_RESERVED) >>
       ELSE << >>

end_running_now(st, sid, end_ts) ==
    LET sess == st.sessions[sid]
        elapsed == (end_ts - sess.started_at) \div SECS_PER_MIN
    IN [st EXCEPT !.logs = IF elapsed > 0
                           THEN Append(@, NewLog(sid, sess.user, sess.gpu,
                                                 sess.started_at, end_ts,
                                                 elapsed, TAG_RUNNING))
                           ELSE @,
                  !.sessions[sid] = [@ EXCEPT !.state = ENDED,
                                              !.ended_at = end_ts]]

\* The body of the loop over the snapshot, for one (uuid, user) key.
CollectorKey(st, key, ts) ==
    IF ~GpuKnown(st, key[1]) THEN st
    ELSE LET st1 == find_or_create_user(st, key[2])
             A == ActiveOf(st1, key[2], key[1])
         IN IF A = {}
            THEN [st1 EXCEPT !.sessions = Append(@,
                     NewSession(key[2], key[1], st1.gpus[key[1]].node,
                                RUNNING, NoTs, NoTs, ts, ts, "", "detected"))]
            ELSE LET sid == CHOOSE i \in A : \A j \in A : j <= i
                     sess == st1.sessions[sid]
                 IN IF sess.state = RESERVED
                    THEN [st1 EXCEPT
                            !.logs = @ \o log_reserved_slice(sid, sess, ts),
                            !.sessions[sid] = [@ EXCEPT !.state = RUNNING,
                                                        !.started_at = ts,
                                                        !.heartbeat_at = ts]]
                    ELSE IF sess.state = RUNNING
                    THEN [st1 EXCEPT !.sessions[sid].heartbeat_at = ts]
                    ELSE st1

RECURSIVE CollectorKeys(_, _, _, _)
CollectorKeys(st, snap, ts, k) ==
    IF k > Len(snap) THEN st
    ELSE CollectorKeys(CollectorKey(st, snap[k], ts), snap, ts, k + 1)

\* The closing loop: every RUNNING session whose key is not in
\* current_active_keys is ended, from session i on.
RECURSIVE EndAbsent(_, _, _, _)
EndAbsent(st, keys, ts, i) ==
    IF i > Len(st.sessions) THEN st
    ELSE LET sess == st.sessions[i]
         IN EndAbsent(IF sess.state = RUNNING
                         /\ <<sess.gpu, sess.user>> \notin keys
                      THEN end_running_now(st, i, ts)
                      ELSE st,
                      keys, ts, i + 1)

\* One iteration of main_loop at time ts, up to its commit.
main_loop(st, snap, ts) ==
    EndAbsent(CollectorKeys(st, snap, ts, 1), current_active_keys(st, snap),
              ts, 1)

\* What the database holds when s.commit() at the end of the iteration fails:
\* find_or_create_user commits the session s as soon as it adds a user, so
\* everything pending up to the last such commit is durable.
RECURSIVE CommittedMidPass(_, _, _, _, _)
CommittedMidPass(cur, committed, snap, ts, k) ==
    IF k > Len(snap) THEN committed
    ELSE LET key == snap[k]
             created == GpuKnown(cur, key[1]) /\ key[2] \notin cur.users
         IN CommittedMidPass(CollectorKey(cur, key, ts),
                             IF created THEN find_or_create_user(cur, key[2])
                             ELSE committed,
                             snap, ts, k + 1)

\* try: ... except Exception: pass -- whatever the body raised, nothing
\* leaves the iteration.
try_except_pass(body) == [store |-> body.store, raised |-> FALSE]

\* One iteration of the while loop; fails says that the commit raises.
collector_iteration(st, snap, ts, fails) ==
    try_except_pass(
        IF fails
        THEN [store |-> CommittedMidPass(st, st, snap, ts, 1), raised |-> TRUE]
        ELSE [store |-> main_loop(st, snap, ts), raised |-> FALSE])

CollectorPass ==
    \E snap \in CollectorSnapshots, fails \in BOOLEAN :
        Commit(collector_iteration(Store, snap, now, fails))

\* The demo deployment: its GPU rows are seeded, the collector polls on the
\* host, the server takes reservations and the scheduler sweeps.
CollectorInit ==
    /\ now = 0
    /\ nodes = Hosts
    /\ gpus = [u \in GpuUuids |->
                IF u \in StartGpus
                THEN [node |-> CHOOSE h \in Hosts : TRUE,
                      index |-> GpuInfo(u).index, name |-> GpuInfo(u).name,
                      total_memory_mb |-> GpuInfo(u).total_memory_mb]
                ELSE NoGpu]
    /\ users = {}
    /\ sessions = << >>
    /\ logs = << >>
    /\ inflight = [w \in Workers |-> Idle]
    /\ agent = AgentStart

CollectorNext ==
    \/ CollectorPass
    \/ Reserve
    \/ Sweep
    \/ Tick

CollectorSpec == CollectorInit /\ [][CollectorNext]_vars

\* ----------------------------------------------------------- cluster view
IN_USE == "in_use"
IDLE == "idle"

\* Mutant of FreshSessions: the cutoff is ignored.
FreshSessions_AnyRunning(st, uuid, t) ==
    { i \in 1..Len(st.sessions) :
        /\ st.sessions[i].gpu = uuid
        /\ st.sessions[i].state = RUNNING
        /\ st.sessions[i].heartbeat_at # NoTs }

\* fresh: the sessions of sessions_by_gpu[gpu.id] (RUNNING, heartbeat_at not
\* null) with heartbeat_at >= cutoff, cutoff = now - STALE_HEARTBEAT_SECS.
FreshSessions(st, uuid, t) ==
    { i \in 1..Len(st.sessions) :
        /\ st.sessions[i].gpu = uuid
        /\ st.sessions[i].state = RUNNING
        /\ st.sessions[i].heartbeat_at # NoTs
        /\ st.sessions[i].heartbeat_at >= t - STALE_SECS }

\* sorted(node.gpus, key=lambda g: g.index), as a sequence of uuids.
SortedGpus(st, host) ==
    LET G == { u \in GpuUuids : st.gpus[u] # NoGpu /\ st.gpus[u].node = host }
    IN CHOOSE q \in [1..Cardinality(G) -> G] :
          /\ \A a, b \in 1..Cardinality(G) : a # b => q[a] # q[b]
          /\ \A a, b \in 1..Cardinality(G) :
                a < b => st.gpus[q[a]].index <= st.gpus[q[b]].index

\* One entry of gpu_views.
GpuView(st, uuid, t) ==
    [index |-> st.gpus[uuid].index,
     name |-> IF st.gpus[uuid].name # NoName THEN st.gpus[uuid].name ELSE uuid,
     memory_mb |-> st.gpus[uuid].total_memory_mb,
     state |-> IF FreshSessions(st, uuid, t) # {} THEN IN_USE ELSE IDLE]

\* The counters after the loop over the GPUs q[k..] of one node.
RECURSIVE CountGpus(_, _, _, _, _)
CountGpus(st, q, t, k, c) ==
    IF k > Len(q) THEN c
    ELSE CountGpus(st, q, t, k + 1,
            [total_gpus |-> c.total_gpus + 1,
             active_gpus |-> c.active_gpus +
                (IF FreshSessions(st, q[k], t) # {} THEN 1 ELSE 0)])

\* The counters after the loop over the nodes in H.
RECURSIVE CountNodes(_, _, _, _)
CountNodes(st, H, t, c) ==
    IF H = {} THEN c
    ELSE LET h == CHOOSE x \in H : TRUE
         IN CountNodes(st, H \ {h}, t, CountGpus(st, SortedGpus(st, h), t, 1, c))

get_realtime_cluster_view(st, t) ==
    LET shown == { h \in st.nodes : Len(SortedGpus(st, h)) > 0 }
        c == CountNodes(st, st.nodes, t, [total_gpus |-> 0, active_gpus |-> 0])
    IN [updated_at |-> t,
        total_gpus |-> c.total_gpus,
        active_gpus |-> c.active_gpus,
        idle_gpus |-> Max(0, c.total_gpus - c.active_gpus),
        nodes |-> [h \in shown |->
                     [k \in 1..Len(SortedGpus(st, h)) |->
                        GpuView(st, SortedGpus(st, h)[k], t)]]]

\* Runs that feed the view: every device of the node is registered, sessions
\* start, beat and end on any of them, reservations are taken and swept.
ViewInit ==
    /\ now = 0
    /\ nodes = Hosts
    /\ gpus = [u \in GpuUuids |->
                [node |-> CHOOSE h \in Hosts : TRUE,
                 index |-> GpuInfo(u).index, name |-> GpuInfo(u).name,
                 total_memory_mb |-> GpuInfo(u).total_memory_mb]]
    /\ users = Users
    /\ sessions = << >>
    /\ logs = << >>
    /\ inflight = [w \in Workers |-> Idle]
    /\ agent = AgentStart

ViewNext ==
    \/ StartAnyGpu
    \/ SessionHeartbeat
    \/ SessionEnd
    \/ Reserve
    \/ Sweep
    \/ Tick

ViewSpec == ViewInit /\ [][ViewNext]_vars

\* ------------------------------------------------------ reservation matcher
\* repo.get_reserved_session_for_start: the same query as the one inlined in
\* handle_session_start; the rows .first() may return (0: None).
get_reserved_session_for_start(st, user_id, gpu_id, start_at) ==
    LET M == ReservedCovering(st, user_id, gpu_id, start_at)
    IN IF M = {} THEN {0}
       ELSE { i \in M : \A j \in M :
                st.sessions[i].reserved_from <= st.sessions[j].reserved_from }

\* Table gpu_sessions carries no constraint on reservations, and its RESERVED
\* rows are written outside the agent routes (created_by manual or slack): the
\* matcher is run on every table of at most MaxSessions rows built from these
\* windows.
MatchTimes == { k * Step : k \in 0..(2 * (MaxTick - 1)) }

MatchWindows == { w \in MatchTimes \X MatchTimes :
                    w[1] <= w[2] /\ w[1] % SECS_PER_MIN = 0
                                 /\ w[2] % SECS_PER_MIN = 0 }

MatchRows ==
    { [NewSession(u, g, h, s, w[1], w[2],
                  IF s = RESERVED THEN NoTs ELSE w[1],
                  IF s = RESERVED THEN NoTs ELSE w[1], "manual", "")
         EXCEPT !.ended_at = IF s = ENDED THEN w[2] ELSE NoTs] :
        u \in Users, g \in GpuUuids, h \in Hosts,
        s \in {RESERVED, RUNNING, ENDED}, w \in MatchWindows }

MatchTables ==
    UNION { [1..n -> MatchRows] : n \in 0..MaxSessions }

MatchInit ==
    /\ now = 0
    /\ nodes = Hosts
    /\ gpus = [u \in GpuUuids |->
                [node |-> CHOOSE h \in Hosts : TRUE,
                 index |-> GpuInfo(u).index, name |-> GpuInfo(u).name,
                 total_memory_mb |-> GpuInfo(u).total_memory_mb]]
    /\ users = Users
    /\ sessions \in MatchTables
    /\ logs = << >>
    /\ inflight = [w \in Workers |-> Idle]
    /\ agent = AgentStart

\* A request worker runs the query and holds its result; the query writes
\* nothing (the session factory has autoflush off, nothing is pending).
Match ==
    \E w \in {"w1"}, u \in Users, g \in GpuUuids, t \in MatchTimes :
        \E r \in get_reserved_session_for_start(Store, u, g, t) :
            /\ inflight' = [inflight EXCEPT ![w] =
                              [op |-> "match", user |-> u, gpu |-> g,
                               t |-> t, result |-> r]]
            /\ UNCHANGED <<now, nodes, gpus, users, sessions, logs, agent>>

MatchNext == Match

MatchSpec == MatchInit /\ [][MatchNext]_vars

\* --------------------------------------------- sweeps over any session table
\* The Sweeper and the clock, started from every table of MatchTables: windows
\* of zero minutes (reserve_minutes defaults to 0) and of whole minutes.
SweepNext == Sweep \/ Tick

SweepSpec == MatchInit /\ [][SweepNext]_vars

\* ------------------------------------------- reports of several pairs
\* Two users on the two registered devices of the node: reports of every
\* (user, gpu) pair, one after another, at the current clock reading.
PairUsers == Users \cup {"u2"}

PairStart ==
    \E h \in Hosts, g \in GpuUuids, u \in PairUsers :
        \E pick \in StartTargets(Store, u, g, now) :
            Commit(gpu_session_start(Store,
                [hostname |-> h, gpu_uuid |-> g, user |-> u,
                 started_at |-> now], pick))

PairHeartbeat ==
    \E h \in Hosts, g \in GpuUuids, u \in PairUsers :
        \E pick \in LatestRunning(Store, u, g) :
            Commit(Forbid(handle_session_heartbeat(Store,
                [hostname |-> h, gpu_uuid |-> g, user |-> u, ts |-> now],
                pick)))

PairEnd ==
    \E h \in Hosts, g \in GpuUuids, u \in PairUsers :
        \E pick \in LatestRunning(Store, u, g) :
            Commit(gpu_session_end(Store,
                [hostname |-> h, gpu_uuid |-> g, user |-> u, ended_at |-> now],
                pick))

PairNext == PairStart \/ PairHeartbeat \/ PairEnd \/ Tick

PairSpec == ViewInit /\ [][PairNext]_vars

\* ------------------------------------------------------ node agent loop
\* The agent of src/aris/agents/gpu_agent/agent.py.  One step is one
\* iteration of main_loop's while loop, with the requests it posts served by
\* the routes above.
\* GPU_AGENT_POLL_SECS.
POLL_SECS == 10
\* GPU_AGENT_LOCAL_SESSION_TIMEOUT_SECS.
session_timeout_secs == 30
\* main_loop's retry interval of the registration.
register_interval_secs == 60

AgentMaxTime == MaxPolls * POLL_SECS

\* What becomes of a request: it never reaches the server, it is served and
\* answered, or it is served and the answer is lost (timeout=3).
Delivery == {"lost", "served", "noreply"}

\* The route a path is mounted on.
Serve(st, path, payload, pick) ==
    CASE path = "/register" -> gpu_register(st, payload, pick)
      [] path = "/session/start" -> gpu_session_start(st, payload, pick)
      [] path = "/session/heartbeat" -> gpu_session_heartbeat(st, payload, pick)
      [] path = "/session/end" -> gpu_session_end(st, payload, pick)

\* The rows the database may hand to the route's query.
ServePicks(st, path, payload) ==
    CASE path = "/register" -> PkOrders
      [] path = "/session/start" ->
           StartTargets(st, payload.user, payload.gpu_uuid, payload.started_at)
      [] path = "/session/end" ->
           LatestRunning(st, payload.user, payload.gpu_uuid)
      [] OTHER -> {0}

\* post: None (data FALSE) on an exception, on a status that is not ok and
\* on a body whose "ok" is false; the decoded body otherwise.
post(st, path, payload, d, pick) ==
    LET out == Serve(st, path, payload, pick)
    IN [store |-> IF d = "lost" THEN st ELSE out.store,
        data |-> d = "served" /\ out.resp.code = 200 /\ out.resp.ok,
        sent |-> [path |-> path, payload |-> payload, delivery |-> d]]

Posts(st, path, payload) ==
    { post(st, path, payload, d, pick) :
        d \in Delivery, pick \in ServePicks(st, path, payload) }

\* The order in which a loop visits a set of keys.
RECURSIVE KeyOrder(_)
KeyOrder(S) ==
    IF S = {} THEN << >>
    ELSE LET k == CHOOSE k \in S : TRUE IN <<k>> \o KeyOrder(S \ {k})

\* The registration at the head of the iteration: attempted while not
\* registered_ok and no attempt was made in the last register_interval_secs;
\* a failure sleeps register_interval_secs before the snapshot is taken.
AgentRegister(c, ts) ==
    IF ~c.registered_ok
       /\ (c.last_register_ts = NoTs
           \/ ts - c.last_register_ts > register_interval_secs)
    THEN { [c EXCEPT !.store = r.store,
                     !.registered_ok = r.data,
                     !.last_register_ts = ts,
                     !.slept = IF r.data THEN 0 ELSE register_interval_secs,
                     !.posted = Append(@, r.sent)] :
             r \in UNION { Posts(c.store, "/register",
                                 [hostname |-> HOSTNAME, gpus |-> l]) :
                             l \in RegisterLists } }
    ELSE {c}

\* The loop over the snapshot: a key that is not in `sessions` gets a
\* LocalSession and a /session/start; a key that is gets last_seen = ts and
\* a heartbeat item.
RECURSIVE TrackCurrent(_, _, _)
TrackCurrent(C, keys, ts) ==
    IF keys = << >> THEN C
    ELSE
      LET key == Head(keys)
          visit(c) ==
            IF c.sessions[key] = NoLocal
            THEN { [c EXCEPT !.sessions[key] =
                                [started_at |-> ts, last_seen |-> ts],
                             !.store = r.store,
                             !.posted = Append(@, r.sent)] :
                     r \in Posts(c.store, "/session/start",
                                 [hostname |-> HOSTNAME, gpu_uuid |-> key[1],
                                  user |-> key[2], started_at |-> ts]) }
            ELSE { [c EXCEPT !.sessions[key].last_seen = ts,
                             !.items = Append(@, [gpu_uuid |-> key[1],
                                                  user |-> key[2],
                                                  ts |-> ts])] }
      IN TrackCurrent(UNION { visit(c) : c \in C }, Tail(keys), ts)

\* One heartbeat request for all items, if there is any.
PostHeartbeat(c) ==
    IF c.items # << >>
    THEN { [c EXCEPT !.store = r.store, !.posted = Append(@, r.sent)] :
             r \in Posts(c.store, "/session/heartbeat",
                         [hostname |-> HOSTNAME, items |-> c.items]) }
    ELSE {c}

\* Mutant of Expired: a key is ended in the first iteration that misses it.
Expired_AtOnce(sess, ts) == TRUE

\* (ts - sess.last_seen).total_seconds() >= session_timeout_secs
Expired(sess, ts) == ts - sess.last_seen >= session_timeout_secs

\* The loop over `sessions`: a key that is not in the snapshot and was last
\* seen session_timeout_secs ago or more gets a /session/end and is popped.
RECURSIVE EndExpired(_, _, _, _)
EndExpired(C, keys, current_keys, ts) ==
    IF keys = << >> THEN C
    ELSE
      LET key == Head(keys)
          visit(c) ==
            IF c.sessions[key] # NoLocal /\ key \notin current_keys
               /\ Expired(c.sessions[key], ts)
            THEN { [c EXCEPT !.sessions[key] = NoLocal,
                             !.store = r.store,
                             !.posted = Append(@, r.sent)] :
                     r \in Posts(c.store, "/session/end",
                                 [hostname |-> HOSTNAME, gpu_uuid |-> key[1],
                                  user |-> key[2],
                                  started_at |-> c.sessions[key].started_at,
                                  ended_at |-> c.sessions[key].last_seen]) }
            ELSE {c}
      IN EndExpired(UNION { visit(c) : c \in C }, Tail(keys), current_keys, ts)

\* One iteration of the while loop of the agent's main_loop, from the locals
\* ag and the server's store st, at ts = now() with the snapshot
\* current_keys: the outcomes the deliveries allow.
agent_main_loop(ag, st, ts, current_keys) ==
    LET c0 == [sessions |-> ag.sessions, registered_ok |-> ag.registered_ok,
               last_register_ts |-> ag.last_register_ts, store |-> st,
               slept |-> 0, items |-> << >>, posted |-> << >>]
        C1 == AgentRegister(c0, ts)
        C2 == TrackCurrent(C1, KeyOrder(current_keys), ts)
        C3 == UNION { PostHeartbeat(c) : c \in C2 }
    IN EndExpired(C3, KeyOrder(AgentKeys), current_keys, ts)

\* An iteration and the sleep that ends it.
AgentPoll ==
    /\ now < AgentMaxTime
    /\ \E current_keys \in SUBSET AgentKeys :
         \E c \in agent_main_loop(agent, Store, now, current_keys) :
            /\ Len(c.store.sessions) <= MaxSessions
            /\ agent' = [sessions |-> c.sessions,
                         registered_ok |-> c.registered_ok,
                         last_register_ts |-> c.last_register_ts,
                         ts |-> now, current_keys |-> current_keys,
                         posted |-> c.posted]
            /\ nodes' = c.store.nodes
            /\ gpus' = c.store.gpus
            /\ users' = c.store.users
            /\ sessions' = c.store.sessions
            /\ logs' = c.store.logs
            /\ now' = now + c.slept + POLL_SECS
            /\ UNCHANGED inflight

AgentNext == AgentPoll

AgentSpec == Init /\ [][AgentNext]_vars

\* ================================================================ claims
\* The reports a caller may deliver in the current state.
StartPayloads ==
    { [hostname |-> h, gpu_uuid |-> g, user |-> u, started_at |-> t] :
        h \in Hosts, g \in StartGpus, u \in Users, t \in Stamps(now) }

HeartbeatPayloads ==
    { [hostname |-> h, gpu_uuid |-> g, user |-> u, ts |-> t] :
        h \in Hosts, g \in GpuUuids, u \in Users, t \in Stamps(now) }

EndPayloads ==
    { [hostname |-> h, gpu_uuid |-> g, user |-> u, ended_at |-> t] :
        h \in Hosts, g \in GpuUuids, u \in Users, t \in Stamps(now) }

SessionIds == 1..Len(sessions)

\* The UsageLog rows written for session i.
LogsOf(i) == { k \in 1..Len(logs) : logs[k].session_id = i }

\* ---------------------------------------------------------------- C1
\* C1: for every (user, gpu) pair at most one Session is RESERVED or RUNNING,
\* after any sequence of register, start, heartbeat, end and Sweeper steps.
C1_MutualExclusion ==
    \A u \in Users, g \in GpuUuids : Cardinality(ActiveOf(Store, u, g)) <= 1

\* ---------------------------------------------------------------- C2
RECURSIVE SumMinutes(_)
SumMinutes(K) ==
    IF K = {} THEN 0
    ELSE LET k == CHOOSE x \in K : TRUE
         IN logs[k].minutes + SumMinutes(K \ {k})

\* The sum of the minutes of all UsageLog rows referencing session i.
UsageSum(i) == SumMinutes(LogsOf(i))

\* ceil(d / 60)
CeilMinutes(d) == -((-d) \div SECS_PER_MIN)

\* The minutes of the reservation slice that precedes started_at.
SliceBeforeStart(s) ==
    IF s.reserved_from # NoTs /\ s.reserved_from < s.started_at
    THEN (s.started_at - s.reserved_from) \div SECS_PER_MIN
    ELSE 0

Closed(s) == s.started_at # NoTs /\ s.ended_at # NoTs

\* C2 as stated: for every Session with started_at and ended_at, the sum of
\* its UsageLog minutes never exceeds ceil((ended_at - started_at)/60) plus the
\* minutes of the reservation slice preceding started_at.
C2_NoDoubleAccounting_AsStated ==
    \A i \in SessionIds :
        Closed(sessions[i]) =>
            UsageSum(i) <= CeilMinutes(sessions[i].ended_at - sessions[i].started_at)
                           + SliceBeforeStart(sessions[i])

\* C2 amended: the sum never exceeds max(1, ceil((ended_at - started_at)/60))
\* plus the reservation-slice minutes preceding started_at (a close charges at
\* least one minute); a session that is still running has at most its
\* reservation-slice minutes.
C2_NoDoubleAccounting ==
    \A i \in SessionIds :
        LET s == sessions[i]
        IN /\ Closed(s) =>
                UsageSum(i) <= Max(1, CeilMinutes(s.ended_at - s.started_at))
                               + SliceBeforeStart(s)
           /\ (s.state = RUNNING) => UsageSum(i) <= SliceBeforeStart(s)

\* A session closed by session_end less than a minute after it started, with
\* its one-minute row, and a session closed after a consumed reservation slice.
C2_Witness ==
    /\ \E i \in SessionIds :
        /\ sessions[i].state = ENDED
        /\ sessions[i].started_at # NoTs
        /\ sessions[i].ended_at >= sessions[i].started_at
        /\ sessions[i].ended_at - sessions[i].started_at < SECS_PER_MIN
        /\ \E k \in LogsOf(i) : logs[k].tag = TAG_NORMAL /\ logs[k].minutes = 1
    /\ \E i \in SessionIds :
        /\ sessions[i].state = ENDED
        /\ SliceBeforeStart(sessions[i]) >= 1
        /\ Cardinality(LogsOf(i)) = 2

\* ---------------------------------------------------------------- C3
\* C3: when the Sweeper closes a RUNNING session whose last heartbeat T1 is
\* more than the staleness threshold before the sweep time T2, the session's
\* ended_at and the end_ts of the closing UsageLog both equal T1, never T2.
C3_StaleCloseUsesLastHeartbeat ==
    [][Sweep =>
        \A i \in SessionIds :
            RunningStale(sessions[i], now) =>
                /\ sessions'[i].state = ENDED
                /\ sessions'[i].ended_at = sessions[i].heartbeat_at
                /\ \A k \in (Len(logs) + 1)..Len(logs') :
                     logs'[k].session_id = i =>
                        /\ logs'[k].end_ts = sessions[i].heartbeat_at
                        /\ logs'[k].start_ts = sessions[i].started_at]_vars

\* A stale session closed by the Sweeper with its closing row, seen at a time
\* later than the last heartbeat plus the threshold.
C3_Witness ==
    \E i \in SessionIds :
        /\ sessions[i].state = ENDED
        /\ sessions[i].started_at < sessions[i].heartbeat_at
        /\ sessions[i].ended_at = sessions[i].heartbeat_at
        /\ now > sessions[i].heartbeat_at + STALE_SECS
        /\ \E k \in LogsOf(i) :
             /\ logs[k].tag = TAG_RUNNING
             /\ logs[k].end_ts = sessions[i].heartbeat_at

\* ---------------------------------------------------------------- C4
\* C4: a session_start at t that matches a RESERVED session whose
\* reserved_from is at least one full minute before t emits exactly one
\* reservation UsageLog covering [reserved_from, t] with
\* floor((t - reserved_from)/60) minutes, and that same session (no new one)
\* becomes RUNNING with started_at = heartbeat_at = t.
C4_ReservationConsumption ==
    \A p \in StartPayloads :
        \A pick \in StartTargets(Store, p.user, p.gpu_uuid, p.started_at) :
            LET t == p.started_at
                out == handle_session_start(Store, p, pick)
            IN (ReservedCovering(Store, p.user, p.gpu_uuid, t) # {}) =>
                /\ pick \in ReservedCovering(Store, p.user, p.gpu_uuid, t)
                /\ (t - sessions[pick].reserved_from >= SECS_PER_MIN) =>
                    /\ out.resp.ok
                    /\ out.resp.session_id = pick
                    /\ out.store.logs = Append(logs,
                          [session_id |-> pick, user |-> p.user,
                           gpu |-> p.gpu_uuid,
                           start_ts |-> sessions[pick].reserved_from,
                           end_ts |-> t,
                           minutes |-> (t - sessions[pick].reserved_from)
                                           \div SECS_PER_MIN,
                           tag |-> TAG_RESERVED])
                    /\ out.store.sessions =
                          [sessions EXCEPT ![pick] =
                              [@ EXCEPT !.state = RUNNING, !.started_at = t,
                                        !.heartbeat_at = t]]

\* A reserved session consumed by a start a minute and a half into its window.
C4_Witness ==
    \E i \in SessionIds :
        /\ sessions[i].state = RUNNING
        /\ sessions[i].reserved_from # NoTs
        /\ sessions[i].started_at - sessions[i].reserved_from = 3 * Step
        /\ sessions[i].heartbeat_at = sessions[i].started_at
        /\ \E k \in LogsOf(i) :
             /\ logs[k].tag = TAG_RESERVED
             /\ logs[k].start_ts = sessions[i].reserved_from
             /\ logs[k].end_ts = sessions[i].started_at
             /\ logs[k].minutes = 1
        /\ Cardinality(LogsOf(i)) = 1

\* ---------------------------------------------------------------- C5
NeverStarted(s) == s.state = ENDED /\ s.started_at = NoTs

\* C5 as stated: a RESERVED session never observed running is closed by the
\* Sweeper with ended_at = reserved_until and no UsageLog row.
C5_NoShow_AsStated ==
    \A i \in SessionIds :
        NeverStarted(sessions[i]) =>
            /\ sessions[i].ended_at = sessions[i].reserved_until
            /\ LogsOf(i) = {}

\* C5 amended: a RESERVED session never observed running is closed by the
\* Sweeper with ended_at = reserved_until, and the only UsageLog row written for
\* it is one reservation row covering [reserved_from, reserved_until], written
\* exactly when that window holds at least one full minute.
C5_NoShow ==
    \A i \in SessionIds :
        LET s == sessions[i]
            m == (s.reserved_until - s.reserved_from) \div SECS_PER_MIN
        IN NeverStarted(s) =>
            /\ s.ended_at = s.reserved_until
            /\ \A k \in LogsOf(i) :
                 logs[k] = [session_id |-> i, user |-> s.user, gpu |-> s.gpu,
                            start_ts |-> s.reserved_from,
                            end_ts |-> s.reserved_until,
                            minutes |-> m, tag |-> TAG_RESERVED]
            /\ Cardinality(LogsOf(i)) = IF m >= 1 THEN 1 ELSE 0

\* A reservation that expired unused and was closed by the Sweeper.
C5_Witness ==
    \E i \in SessionIds :
        /\ NeverStarted(sessions[i])
        /\ now > sessions[i].reserved_until
        /\ LogsOf(i) # {}

C7_BatchSkipsUnknownGpu ==
    \A h \in Hosts, t \in Stamps(now) :
        \A b \in HeartbeatBatches(t) :
            LET out == gpu_session_heartbeat(Store,
                          [hostname |-> h, items |-> b], 0)
                known == { k \in 1..Len(b) : GpuKnown(Store, b[k].gpu_uuid) }
            IN (known # {} /\ known # 1..Len(b)) =>
                /\ out.resp.code = 200
                /\ out.resp.ok
                /\ out.store.gpus = gpus
                /\ \A k \in known :
                     \E i \in RunningOf(out.store, b[k].user, b[k].gpu_uuid) :
                        out.store.sessions[i].heartbeat_at = t

\* ---------------------------------------------------------------- C8
\* C8: every Session with both started_at and ended_at set satisfies
\* ended_at >= started_at, whichever component closed it.
C8_EndNotBeforeStart ==
    \A i \in SessionIds :
        Closed(sessions[i]) => sessions[i].ended_at >= sessions[i].started_at

StateRank(state) ==
    IF state = RESERVED THEN 0 ELSE IF state = RUNNING THEN 1 ELSE 2

\* C10: a Session's state only moves forward along RESERVED -> RUNNING ->
\* ENDED (or RESERVED -> ENDED); no step changes any field of an ENDED
\* session, and no step deletes a Session.
C10_ForwardOnly ==
    [][/\ Len(sessions') >= Len(sessions)
       /\ \A i \in SessionIds :
            /\ StateRank(sessions'[i].state) >= StateRank(sessions[i].state)
            /\ sessions'[i].user = sessions[i].user
            /\ sessions'[i].gpu = sessions[i].gpu
            /\ (sessions[i].state = ENDED) => sessions'[i] = sessions[i]]_vars

\* A session that went RESERVED -> RUNNING -> ENDED, and after it a second
\* session of the same pair that went RESERVED -> ENDED by expiry.
C10_Witness ==
    \E i, j \in SessionIds :
        /\ i < j
        /\ sessions[i].state = ENDED
        /\ sessions[i].reserved_from # NoTs
        /\ sessions[i].started_at # NoTs
        /\ sessions[j].user = sessions[i].user
        /\ sessions[j].gpu = sessions[i].gpu
        /\ NeverStarted(sessions[j])

\* ---------------------------------------------------------------- C11
\* C11: session_end for a (user, gpu) pair that has a RUNNING session sets
\* that session to ENDED with ended_at equal to the reported ended_at and
\* emits exactly one normal-usage UsageLog covering [started_at, ended_at]
\* with minutes = max(1, floor((ended_at - started_at)/60)); no other session
\* changes.
C11_EndClosesRunning ==
    \A p \in EndPayloads :
        \A pick \in LatestRunning(Store, p.user, p.gpu_uuid) :
            LET out == gpu_session_end(Store, p, pick)
                d == p.ended_at - sessions[pick].started_at
            IN (RunningOf(Store, p.user, p.gpu_uuid) # {}) =>
                /\ pick \in RunningOf(Store, p.user, p.gpu_uuid)
                /\ out.resp.ok
                /\ out.resp.session_id = pick
                /\ Len(out.store.sessions) = Len(sessions)
                /\ \A i \in SessionIds \ {pick} :
                     out.store.sessions[i] = sessions[i]
                /\ out.store.sessions[pick].state = ENDED
                /\ out.store.sessions[pick].ended_at = p.ended_at
                /\ out.store.sessions[pick].started_at
                     = sessions[pick].started_at
                /\ out.store.logs = Append(logs,
                      [session_id |-> pick, user |-> p.user,
                       gpu |-> p.gpu_uuid,
                       start_ts |-> sessions[pick].started_at,
                       end_ts |-> p.ended_at,
                       minutes |-> IF d \div SECS_PER_MIN >= 1
                                   THEN d \div SECS_PER_MIN ELSE 1,
                       tag |-> TAG_NORMAL])

\* Two sessions closed by session_end: one two and a half minutes after its
\* start (two full minutes charged), one in the minute it started (one minute
\* charged).
C11_Witness ==
    \E i, j \in SessionIds :
        /\ sessions[i].state = ENDED
        /\ sessions[i].ended_at - sessions[i].started_at = 5 * Step
        /\ \E k \in LogsOf(i) :
             /\ logs[k].tag = TAG_NORMAL
             /\ logs[k].start_ts = sessions[i].started_at
             /\ logs[k].end_ts = sessions[i].ended_at
             /\ logs[k].minutes = 2
        /\ sessions[j].state = ENDED
        /\ sessions[j].started_at # NoTs
        /\ sessions[j].ended_at - sessions[j].started_at = Step
        /\ \E k \in LogsOf(j) : logs[k].tag = TAG_NORMAL /\ logs[k].minutes = 1

\* ---------------------------------------------------------------- C12
\* C12: session_end that references an unregistered GPU, or a (user, gpu)
\* pair with no RUNNING session, returns ok = false with a detail, raises no
\* error to the caller, and leaves the durable store unchanged: no Session,
\* UsageLog, Node, GPU or User row is created or modified.
C12_EndWithoutRunning ==
    \A p \in EndPayloads :
        \A pick \in LatestRunning(Store, p.user, p.gpu_uuid) :
            LET out == gpu_session_end(Store, p, pick)
            IN (\/ ~GpuKnown(Store, p.gpu_uuid)
                \/ RunningOf(Store, p.user, p.gpu_uuid) = {}) =>
                /\ out.resp.code = 200
                /\ ~out.resp.ok
                /\ out.resp.detail # ""
                /\ out.store.sessions = sessions
                /\ out.store.logs = logs
                /\ out.store.nodes = nodes
                /\ out.store.gpus = gpus
                /\ out.store.users = users

\* A session_end repeated after the pair's session was already closed by
\* session_end, and a session_end for a GPU that is not registered.
C12_Witness ==
    /\ \E i \in SessionIds :
        /\ sessions[i].state = ENDED
        /\ \E k \in LogsOf(i) : logs[k].tag = TAG_NORMAL
        /\ RunningOf(Store, sessions[i].user, sessions[i].gpu) = {}
        /\ \E p \in EndPayloads :
             /\ p.user = sessions[i].user
             /\ p.gpu_uuid = sessions[i].gpu
             /\ gpu_session_end(Store, p, 0).resp.detail
                   = "no active session to end"
    /\ \E p \in EndPayloads :
        /\ ~GpuKnown(Store, p.gpu_uuid)
        /\ gpu_session_end(Store, p, 0).resp.detail = "unknown gpu"

\* ---------------------------------------------------------------- C13
\* C13: delivering the same session_start report (same hostname, gpu_uuid,
\* user, started_at) twice produces the same sessions and UsageLog rows as
\* delivering it once: no second RUNNING session and no duplicate UsageLog row
\* is created for the pair.
C13_StartIdempotent ==
    \A p \in StartPayloads :
        \A pick1 \in StartTargets(Store, p.user, p.gpu_uuid, p.started_at) :
            LET once == gpu_session_start(Store, p, pick1)
            IN \A pick2 \in StartTargets(once.store, p.user, p.gpu_uuid,
                                         p.started_at) :
                LET twice == gpu_session_start(once.store, p, pick2)
                IN once.resp.ok =>
                    /\ twice.store.sessions = once.store.sessions
                    /\ twice.store.logs = once.store.logs

\* ---------------------------------------------------------------- C14
RegisterPayloads ==
    { [hostname |-> h, gpus |-> l] : h \in Hosts, l \in DeviceLists }

\* The row register must leave for a listed device: the reported node, index
\* and name, and the reported memory when there is one.
Registered(row, host, info) ==
    /\ row.node = host
    /\ row.index = info.index
    /\ row.name = info.name
    /\ info.total_memory_mb # NoMem =>
          row.total_memory_mb = info.total_memory_mb

\* C14: register is idempotent: a register(hostname, gpu_list) report
\* succeeds, creating the unknown GPUs and updating the known ones (changed
\* index, name or memory) in place, and applying the same report again yields
\* the same Node and GPU records and the same returned mapping.
C14_RegisterIdempotent ==
    \A p \in RegisterPayloads, ord \in PkOrders :
        LET once == gpu_register(Store, p, ord)
            twice == gpu_register(once.store, p, ord)
        IN /\ once.resp.ok
           /\ p.hostname \in once.store.nodes
           /\ \A i \in 1..Len(p.gpus) :
                Registered(once.store.gpus[p.gpus[i].uuid], p.hostname,
                           p.gpus[i])
           /\ twice.store = once.store
           /\ twice.resp = once.resp

\* ---------------------------------------------------------------- C15
\* A GPU row created by a session start and not yet registered: register
\* always reports a name, the placeholder has none.
Placeholder(row) == row # NoGpu /\ row.name = NoName

\* The GPUs that have a row on the host.
GpusOn(host) == { u \in GpuUuids : gpus[u] # NoGpu /\ gpus[u].node = host }

\* No register of the host has been applied yet.
Unregistered(host) == \A u \in GpusOn(host) : Placeholder(gpus[u])

\* C15: register need not precede start: while a node is not registered, each
\* session_start for one of its GPU UUIDs succeeds by creating a placeholder
\* GPU, and the later register of the node's full GPU list succeeds too,
\* leaving every listed UUID with the registered index, name and memory and
\* the earlier sessions untouched.
C15_StartBeforeRegister ==
    /\ \A p \in StartPayloads, g \in GpuUuids :
         LET q == [p EXCEPT !.gpu_uuid = g]
             out == gpu_session_start(Store, q, 0)
         IN (Unregistered(q.hostname) /\ ~GpuKnown(Store, g)) =>
              /\ out.resp.ok
              /\ Placeholder(out.store.gpus[g])
              /\ out.store.gpus[g].node = q.hostname
    /\ \A p \in RegisterPayloads, ord \in PkOrders :
         LET out == gpu_register(Store, p, ord)
             listed == { p.gpus[i].uuid : i \in 1..Len(p.gpus) }
         IN (/\ Unregistered(p.hostname)
             /\ GpusOn(p.hostname) # {}
             /\ GpusOn(p.hostname) \subseteq listed) =>
              /\ out.resp.ok
              /\ \A i \in 1..Len(p.gpus) :
                   Registered(out.store.gpus[p.gpus[i].uuid], p.hostname,
                              p.gpus[i])
              /\ out.store.sessions = sessions

\* ---------------------------------------------------------------- C16
\* The UsageLog rows a step appends for session i.
NewRows(i) ==
    { k \in (Len(logs) + 1)..Len(logs') : logs'[k].session_id = i }

\* C16: writing a UsageLog and changing its Session's state are one atomic
\* unit.  In every step between committed states: a closing row (normal or
\* running) appears exactly when its session goes from RUNNING to ENDED and a
\* closing row is due (always for session_end, for a full minute or more for
\* the Sweeper); a reservation row appears exactly when its session leaves
\* RESERVED and the slice holds a full minute; rows already written stay.
C16_AtomicLogAndState ==
    [][/\ Len(logs') >= Len(logs)
       /\ SubSeq(logs', 1, Len(logs)) = logs
       /\ \A i \in 1..Len(sessions') :
            LET old == IF i <= Len(sessions) THEN sessions[i].state ELSE ""
                new == sessions'[i]
                closing == { k \in NewRows(i) :
                               logs'[k].tag \in {TAG_NORMAL, TAG_RUNNING} }
                reserving == { k \in NewRows(i) : logs'[k].tag = TAG_RESERVED }
                closedNow == old = RUNNING /\ new.state = ENDED
                leftReserved == old = RESERVED /\ new.state # RESERVED
                slice == IF new.state = RUNNING
                         THEN new.started_at - new.reserved_from
                         ELSE new.reserved_until - new.reserved_from
            IN /\ closing # {} =>
                    /\ closedNow
                    /\ Cardinality(closing) = 1
                    /\ \A k \in closing :
                         /\ logs'[k].start_ts = new.started_at
                         /\ logs'[k].end_ts = new.ended_at
               /\ (closedNow /\ new.ended_at - new.started_at >= SECS_PER_MIN)
                    => closing # {}
               /\ (closedNow /\ SessionEnd) => closing # {}
               /\ reserving # {} =>
                    /\ leftReserved
                    /\ Cardinality(reserving) = 1
                    /\ \A k \in reserving :
                         logs'[k].start_ts = new.reserved_from
               /\ (leftReserved /\ slice >= SECS_PER_MIN) => reserving # {}
      ]_vars

\* A session that consumed a minute of its reservation and was then closed by
\* session_end (state ENDED, both rows present), and a later reservation of
\* the pair closed by the Sweeper with its reservation row.
C16_Witness ==
    \E i, j \in SessionIds :
        /\ i # j
        /\ sessions[i].state = ENDED
        /\ sessions[i].started_at # NoTs
        /\ { logs[k].tag : k \in LogsOf(i) } = {TAG_RESERVED, TAG_NORMAL}
        /\ Cardinality(LogsOf(i)) = 2
        /\ NeverStarted(sessions[j])
        /\ { logs[k].tag : k \in LogsOf(j) } = {TAG_RESERVED}
        /\ Cardinality(LogsOf(j)) = 1

\* ---------------------------------------------------------------- C17
\* C17: when a heartbeat (or session_end) for a RUNNING session and a Sweeper
\* close of the same session overlap, the outcome is that of one of the two
\* serial orders: no session is ever ENDED with heartbeat_at later than its
\* ended_at.
C17_RaceResolved ==
    \A i \in SessionIds :
        (sessions[i].state = ENDED /\ sessions[i].heartbeat_at # NoTs) =>
            sessions[i].heartbeat_at <= sessions[i].ended_at

\* ---------------------------------------------------------------- C18
\* C18: reports for the same (user, gpu) pair handled concurrently are
\* serialized: whenever a transaction commits the insert of a RUNNING session
\* for a pair, no RUNNING session of the pair is in the store at that moment,
\* so that no two RUNNING sessions are left for the pair.
C18_PairSerialized ==
    [][\A i \in (Len(sessions) + 1)..Len(sessions') :
          sessions'[i].state = RUNNING =>
              RunningOf(Store, sessions'[i].user, sessions'[i].gpu) = {}]_vars

\* ---------------------------------------------------------------- C19
\* C19: liveness without session_end: once the heartbeats of a RUNNING session
\* have stopped and no session_end arrives, the session is eventually ENDED,
\* given that the Sweeper keeps ticking.
C19_EventuallyEnded ==
    \A i \in 1..MaxSessions :
        (i <= Len(sessions) /\ sessions[i].state = RUNNING)
            ~> (i <= Len(sessions) /\ sessions[i].state = ENDED)

\* A session that was started, refreshed by a later heartbeat, and then
\* closed by the Sweeper at that last heartbeat.
C19_Witness ==
    \E i \in SessionIds :
        /\ sessions[i].state = ENDED
        /\ sessions[i].started_at # NoTs
        /\ sessions[i].heartbeat_at > sessions[i].started_at
        /\ sessions[i].ended_at = sessions[i].heartbeat_at
        /\ now - sessions[i].heartbeat_at > STALE_SECS
        /\ \A k \in LogsOf(i) : logs[k].tag # TAG_NORMAL


\* C20: a reconciliation pass of the collector over a snapshot that lacks the
\* (gpu, user) key of a RUNNING session takes no action on that session: the
\* row is unchanged (still RUNNING, same timestamps) and the pass adds no
\* UsageLog row for it.
C20_MissedPollKeepsRunning ==
    \A snap \in CollectorSnapshots, i \in SessionIds :
        LET out == main_loop(Store, snap, now)
            absent == \A k \in 1..Len(snap) :
                        snap[k] # <<sessions[i].gpu, sessions[i].user>>
        IN (sessions[i].state = RUNNING /\ absent) =>
              /\ out.sessions[i] = sessions[i]
              /\ \A k \in (Len(logs) + 1)..Len(out.logs) :
                    out.logs[k].session_id # i


\* C21: in the cluster view read at the current time, a GPU is shown in_use
\* exactly when some RUNNING session on it has a heartbeat_at no older than
\* the freshness window, and idle otherwise; active_gpus is the number of GPUs
\* shown in_use, idle_gpus = total_gpus - active_gpus, 0 <= active_gpus <=
\* total_gpus, and a GPU whose sessions are all ENDED or RESERVED is idle.
ShownGpus(view) ==
    { p \in Hosts \X (1..Cardinality(GpuUuids)) :
        p[1] \in DOMAIN view.nodes /\ p[2] \in DOMAIN view.nodes[p[1]] }

C21_ClusterView ==
    LET view == get_realtime_cluster_view(Store, now)
        InUse == { p \in ShownGpus(view) : view.nodes[p[1]][p[2]].state = IN_USE }
    IN /\ \A u \in GpuUuids :
            gpus[u] # NoGpu /\ gpus[u].node \in nodes =>
              \E p \in ShownGpus(view) :
                 /\ p[1] = gpus[u].node
                 /\ view.nodes[p[1]][p[2]].index = gpus[u].index
                 /\ view.nodes[p[1]][p[2]].state \in {IN_USE, IDLE}
                 /\ view.nodes[p[1]][p[2]].state = IN_USE <=>
                      \E i \in SessionIds :
                         /\ sessions[i].gpu = u
                         /\ sessions[i].state = RUNNING
                         /\ sessions[i].heartbeat_at # NoTs
                         /\ now - sessions[i].heartbeat_at <= STALE_SECS
                 /\ (\A i \in SessionIds : sessions[i].gpu = u =>
                        sessions[i].state \in {ENDED, RESERVED})
                      => view.nodes[p[1]][p[2]].state = IDLE
       /\ view.total_gpus = Cardinality(ShownGpus(view))
       /\ view.active_gpus = Cardinality(InUse)
       /\ view.idle_gpus = view.total_gpus - view.active_gpus
       /\ 0 <= view.active_gpus
       /\ view.active_gpus <= view.total_gpus

\* Two GPUs are shown, one in_use and one idle, and the idle one has a RUNNING
\* session whose heartbeat is older than the window.
C21_Witness ==
    LET view == get_realtime_cluster_view(Store, now)
    IN /\ view.total_gpus = 2
       /\ view.active_gpus = 1
       /\ view.idle_gpus = 1
       /\ \E i, j \in SessionIds :
            /\ sessions[i].state = RUNNING
            /\ sessions[j].state = RUNNING
            /\ sessions[i].gpu # sessions[j].gpu
            /\ now - sessions[i].heartbeat_at > STALE_SECS
            /\ now - sessions[j].heartbeat_at <= STALE_SECS


\* C22: a persistence failure during a reconciliation pass is propagated to
\* the caller of the pass as a failure: the iteration of the collector whose
\* commit fails ends raised, it is not swallowed.
C22_FailurePropagates ==
    \A snap \in CollectorSnapshots :
        collector_iteration(Store, snap, now, TRUE).raised


\* C23: UsageLog is append-only and written once per billable interval: a
\* step never changes or removes a row that exists (the old rows are a prefix
\* of the new ones), and every session has at most one usage row (closing row
\* of session_end or of the Sweeper) and at most one reservation row.
UsageRows(i) == { k \in LogsOf(i) : logs[k].tag \in {TAG_NORMAL, TAG_RUNNING} }

ReservationRows(i) == { k \in LogsOf(i) : logs[k].tag = TAG_RESERVED }

C23_AppendOnlyOncePerInterval ==
    /\ [](\A i \in SessionIds :
             /\ Cardinality(UsageRows(i)) <= 1
             /\ Cardinality(ReservationRows(i)) <= 1)
    /\ [][/\ Len(logs') >= Len(logs)
          /\ \A k \in 1..Len(logs) : logs'[k] = logs[k]]_vars

\* A session that went through a reservation and a close has one row of each
\* kind, and the Sweeper has already passed over it after its end.
C23_Witness ==
    \E i \in SessionIds :
        /\ sessions[i].state = ENDED
        /\ Cardinality(UsageRows(i)) = 1
        /\ Cardinality(ReservationRows(i)) = 1
        /\ now - sessions[i].ended_at > STALE_SECS


\* C24: the reservation matcher, given (user, gpu, t), returns a RESERVED
\* session of exactly that pair with reserved_from <= t <= reserved_until,
\* the one with the earliest reserved_from when several qualify, and none
\* when no RESERVED session of the pair covers t; the query inlined in
\* handle_session_start returns the same; matching changes no stored state.
Matched(w) == inflight[w] # Idle /\ inflight[w].op = "match"

Qualifies(j, user, gpu, t) ==
    /\ sessions[j].state = RESERVED
    /\ sessions[j].user = user
    /\ sessions[j].gpu = gpu
    /\ sessions[j].reserved_from <= t
    /\ t <= sessions[j].reserved_until

C24_Matcher ==
    /\ [](\A w \in RequestWorkers : Matched(w) =>
            LET m == inflight[w]
            IN /\ m.result \in StartTargets(Store, m.user, m.gpu, m.t)
               /\ m.result = 0 =>
                    \A j \in SessionIds : ~Qualifies(j, m.user, m.gpu, m.t)
               /\ m.result # 0 =>
                    /\ m.result \in SessionIds
                    /\ Qualifies(m.result, m.user, m.gpu, m.t)
                    /\ \A j \in SessionIds :
                          Qualifies(j, m.user, m.gpu, m.t) =>
                             sessions[m.result].reserved_from
                                <= sessions[j].reserved_from)
    /\ [][Store' = Store]_vars

\* Two reservations of the pair cover t, the earlier one is returned, and t is
\* the last instant of its window.
C24_Witness ==
    \E w \in RequestWorkers :
        /\ Matched(w)
        /\ inflight[w].result # 0
        /\ inflight[w].t = sessions[inflight[w].result].reserved_until
        /\ \E j \in SessionIds :
              /\ j # inflight[w].result
              /\ Qualifies(j, inflight[w].user, inflight[w].gpu, inflight[w].t)
              /\ sessions[j].reserved_from
                    > sessions[inflight[w].result].reserved_from


\* C25: a session_start that matches a RESERVED session at a time t less than
\* 60 seconds after reserved_from (t = reserved_from included) writes no
\* UsageLog row at all, and the session becomes RUNNING with started_at =
\* heartbeat_at = t.
C25_ShortSliceNotLogged ==
    \A p \in StartPayloads :
        \A pick \in StartTargets(Store, p.user, p.gpu_uuid, p.started_at) :
            (pick # 0 /\ p.started_at - sessions[pick].reserved_from < SECS_PER_MIN)
            => LET out == gpu_session_start(Store, p, pick)
               IN /\ out.resp.ok
                  /\ out.resp.session_id = pick
                  /\ out.store.logs = logs
                  /\ Len(out.store.sessions) = Len(sessions)
                  /\ out.store.sessions[pick] =
                        [sessions[pick] EXCEPT !.state = RUNNING,
                                               !.started_at = p.started_at,
                                               !.heartbeat_at = p.started_at]

\* A reservation that was started half a minute into its window: it is
\* RUNNING and nothing was logged for it.
C25_Witness ==
    \E i \in SessionIds :
        /\ sessions[i].state = RUNNING
        /\ sessions[i].reserved_from # NoTs
        /\ sessions[i].started_at - sessions[i].reserved_from > 0
        /\ sessions[i].started_at - sessions[i].reserved_from < SECS_PER_MIN
        /\ sessions[i].heartbeat_at = sessions[i].started_at
        /\ LogsOf(i) = {}


\* C26: when the Sweeper closes a stale RUNNING session it always adds a
\* closing UsageLog row for it, with minutes = max(1, floor((heartbeat_at -
\* started_at) / 60)): one minute is charged even when the last heartbeat is
\* less than a minute after started_at.
C26_StaleCloseMinimumCharge ==
    LET out == sweep_once(Store, now)
    IN \A i \in SessionIds :
          (sessions[i].state = RUNNING /\ out.sessions[i].state = ENDED) =>
             \E k \in (Len(logs) + 1)..Len(out.logs) :
                /\ out.logs[k].session_id = i
                /\ out.logs[k].minutes =
                      Max(1, (sessions[i].heartbeat_at - sessions[i].started_at)
                                \div SECS_PER_MIN)


\* C27: a sweep finding a RESERVED session whose reserved_until has passed
\* sets it ENDED with ended_at = reserved_until, and adds for it exactly one
\* reservation row [reserved_from, reserved_until] with the floored minutes
\* when floor((reserved_until - reserved_from) / 60) >= 1, and no row
\* otherwise.
C27_ExpiredReservation ==
    LET out == sweep_once(Store, now)
    IN \A i \in SessionIds :
          (sessions[i].state = RESERVED /\ now > sessions[i].reserved_until) =>
             LET s == sessions[i]
                 m == (s.reserved_until - s.reserved_from) \div SECS_PER_MIN
                 New == { k \in (Len(logs) + 1)..Len(out.logs) :
                            out.logs[k].session_id = i }
             IN /\ out.sessions[i] = [s EXCEPT !.state = ENDED,
                                               !.ended_at = s.reserved_until]
                /\ m >= 1 =>
                     /\ Cardinality(New) = 1
                     /\ \A k \in New :
                           /\ out.logs[k].tag = TAG_RESERVED
                           /\ out.logs[k].start_ts = s.reserved_from
                           /\ out.logs[k].end_ts = s.reserved_until
                           /\ out.logs[k].minutes = m
                /\ m < 1 => New = {}

\* After a sweep: one expired reservation of zero minutes closed without a
\* row, and one of a whole minute or more closed with its row.
C27_Witness ==
    \E i, j \in SessionIds :
        /\ NeverStarted(sessions[i]) /\ NeverStarted(sessions[j])
        /\ sessions[i].ended_at = sessions[i].reserved_until
        /\ sessions[j].ended_at = sessions[j].reserved_until
        /\ sessions[i].reserved_until = sessions[i].reserved_from
        /\ LogsOf(i) = {}
        /\ sessions[j].reserved_until > sessions[j].reserved_from
        /\ Cardinality(LogsOf(j)) = 1


\* C28: a session_start at time t for a (user, gpu) pair that has no session
\* and no matching reservation succeeds with the id of a new session: exactly
\* one session is added, RUNNING with started_at = heartbeat_at = t and
\* created by the agent, the other sessions are unchanged and no UsageLog row
\* is added.
C28_StartCreatesRunning ==
    \A h \in Hosts, g \in GpuUuids, u \in Users :
        LET p == [hostname |-> h, gpu_uuid |-> g, user |-> u,
                  started_at |-> now]
        IN (\A i \in SessionIds : ~(sessions[i].user = u /\ sessions[i].gpu = g))
           => \A pick \in StartTargets(Store, u, g, now) :
                 LET out == gpu_session_start(Store, p, pick)
                     n == Len(sessions) + 1
                 IN /\ out.resp.ok
                    /\ out.resp.session_id = n
                    /\ Len(out.store.sessions) = n
                    /\ \A i \in SessionIds : out.store.sessions[i] = sessions[i]
                    /\ out.store.sessions[n].state = RUNNING
                    /\ out.store.sessions[n].user = u
                    /\ out.store.sessions[n].gpu = g
                    /\ out.store.sessions[n].started_at = now
                    /\ out.store.sessions[n].heartbeat_at = now
                    /\ out.store.sessions[n].created_by = "agent"
                    /\ out.store.logs = logs


\* C29: a session_heartbeat at time ts for a registered GPU and a (user, gpu)
\* pair without a RUNNING session succeeds and adds one RUNNING recovery
\* session with started_at = heartbeat_at = ts, whose marker differs from that
\* of a session created by session_start, and adds no UsageLog row.
C29_HeartbeatRecovers ==
    \A h \in Hosts, g \in GpuUuids, u \in Users, t \in Stamps(now) :
        (GpuKnown(Store, g) /\ RunningOf(Store, u, g) = {}) =>
            LET item == [gpu_uuid |-> g, user |-> u, ts |-> t]
                out == gpu_session_heartbeat(Store,
                          [hostname |-> h, items |-> << item >>], 0)
                n == Len(sessions) + 1
                started == handle_session_start(Store,
                              [hostname |-> h, gpu_uuid |-> g, user |-> u,
                               started_at |-> t], 0).store.sessions[n]
            IN /\ out.resp.ok
               /\ Len(out.store.sessions) = n
               /\ \A i \in SessionIds : out.store.sessions[i] = sessions[i]
               /\ out.store.sessions[n].state = RUNNING
               /\ out.store.sessions[n].user = u
               /\ out.store.sessions[n].gpu = g
               /\ out.store.sessions[n].started_at = t
               /\ out.store.sessions[n].heartbeat_at = t
               /\ <<out.store.sessions[n].created_by, out.store.sessions[n].note>>
                     # <<started.created_by, started.note>>
               /\ out.store.logs = logs


\* C30: a heartbeat that names a GPU uuid the store does not know leaves the
\* durable GPUs, nodes, users, sessions and UsageLog rows exactly as they
\* were, whether the observation reaches the handler alone or inside the
\* request of the route.
C30_UnknownGpuHeartbeatNoWrite ==
    \A p \in HeartbeatPayloads :
        ~GpuKnown(Store, p.gpu_uuid) =>
            /\ \A pick \in LatestRunning(Store, p.user, p.gpu_uuid) :
                  LET out == handle_session_heartbeat(Store, p, pick)
                  IN ~out.resp.ok /\ out.store = Store
            /\ LET item == [gpu_uuid |-> p.gpu_uuid, user |-> p.user,
                            ts |-> p.ts]
                   out == gpu_session_heartbeat(Store,
                             [hostname |-> p.hostname, items |-> << item >>], 0)
               IN ~out.resp.ok /\ out.store = Store

\* A store with a registered node, a user and a session, in which a heartbeat
\* for the unregistered GPU is answered "unknown gpu".
C30_Witness ==
    /\ nodes # {}
    /\ users # {}
    /\ sessions # << >>
    /\ \E p \in HeartbeatPayloads :
          /\ p.gpu_uuid = "g2"
          /\ ~GpuKnown(Store, p.gpu_uuid)
          /\ handle_session_heartbeat(Store, p, 0).resp.detail = "unknown gpu"


\* C31: session_heartbeat and session_end never modify a RESERVED session:
\* whatever report of either kind is handled, for its pair or another, every
\* RESERVED session is still there with all its fields unchanged.
C31_ReservedUntouched ==
    \A i \in SessionIds :
        sessions[i].state = RESERVED =>
            /\ \A p \in HeartbeatPayloads :
                  \A pick \in LatestRunning(Store, p.user, p.gpu_uuid) :
                     LET out == Forbid(handle_session_heartbeat(Store, p, pick))
                     IN /\ Len(out.store.sessions) >= Len(sessions)
                        /\ out.store.sessions[i] = sessions[i]
            /\ \A p \in EndPayloads :
                  \A pick \in LatestRunning(Store, p.user, p.gpu_uuid) :
                     LET out == gpu_session_end(Store, p, pick)
                     IN /\ Len(out.store.sessions) >= Len(sessions)
                        /\ out.store.sessions[i] = sessions[i]

\* A reservation that is still RESERVED after a heartbeat for its pair was
\* handled: the heartbeat made a recovery session next to it.
C31_Witness ==
    \E i, j \in SessionIds :
        /\ sessions[i].state = RESERVED
        /\ sessions[i].started_at = NoTs
        /\ sessions[j].user = sessions[i].user
        /\ sessions[j].gpu = sessions[i].gpu
        /\ sessions[j].note = "auto-created by heartbeat"
        /\ j > i


\* C32: a session_start, session_heartbeat or session_end for one (user, gpu)
\* pair leaves every session of every other pair unchanged (other users on
\* the same GPU, the same user on other GPUs), changes no existing UsageLog
\* row and adds rows only for its own pair.
OtherPairsKept(out, u, g) ==
    /\ Len(out.store.sessions) >= Len(sessions)
    /\ \A i \in SessionIds :
          (sessions[i].user # u \/ sessions[i].gpu # g) =>
             out.store.sessions[i] = sessions[i]
    /\ Len(out.store.logs) >= Len(logs)
    /\ \A k \in 1..Len(logs) : out.store.logs[k] = logs[k]
    /\ \A k \in (Len(logs) + 1)..Len(out.store.logs) :
          /\ out.store.logs[k].user = u
          /\ out.store.logs[k].gpu = g
          /\ out.store.sessions[out.store.logs[k].session_id].user = u
          /\ out.store.sessions[out.store.logs[k].session_id].gpu = g

C32_PairIsolation ==
    \A h \in Hosts, g \in GpuUuids, u \in PairUsers :
        /\ \A pick \in StartTargets(Store, u, g, now) :
              OtherPairsKept(gpu_session_start(Store,
                  [hostname |-> h, gpu_uuid |-> g, user |-> u,
                   started_at |-> now], pick), u, g)
        /\ \A pick \in LatestRunning(Store, u, g) :
              /\ OtherPairsKept(Forbid(handle_session_heartbeat(Store,
                    [hostname |-> h, gpu_uuid |-> g, user |-> u, ts |-> now],
                    pick)), u, g)
              /\ OtherPairsKept(gpu_session_end(Store,
                    [hostname |-> h, gpu_uuid |-> g, user |-> u,
                     ended_at |-> now], pick), u, g)

\* Two users ran on one GPU at the same time; one session was ended with its
\* row, the other is still RUNNING as it was started.
C32_Witness ==
    \E i, j \in SessionIds :
        /\ sessions[i].gpu = sessions[j].gpu
        /\ sessions[i].user # sessions[j].user
        /\ sessions[i].state = ENDED
        /\ sessions[j].state = RUNNING
        /\ sessions[j].started_at < sessions[i].ended_at
        /\ sessions[i].started_at < sessions[i].ended_at
        /\ sessions[j].heartbeat_at = sessions[j].started_at
        /\ Cardinality(LogsOf(i)) = 1
        /\ LogsOf(j) = {}


\* C33: every UsageLog row has end_ts >= start_ts, also the row written by a
\* session_end whose ended_at precedes the session's started_at.
C33_LogEndNotBeforeStart ==
    \A k \in 1..Len(logs) : logs[k].end_ts >= logs[k].start_ts


\* C34: a register that lists a GPU uuid the store already knows leaves that
\* GPU with the Node it was created under, also when the report comes from
\* another hostname; no known GPU is removed.
ReportingHosts == Hosts \cup {"h2"}

C34_RegisterKeepsNode ==
    \A h \in ReportingHosts, l \in DeviceLists, ord \in PkOrders :
        LET out == gpu_register(Store, [hostname |-> h, gpus |-> l], ord)
        IN \A u \in GpuUuids :
              gpus[u] # NoGpu =>
                 /\ out.store.gpus[u] # NoGpu
                 /\ out.store.gpus[u].node = gpus[u].node


\* C35: a Sweeper tick leaves a RUNNING session with now - heartbeat_at <=
\* STALE_SECS and a RESERVED session with now <= reserved_until exactly as
\* they are, and adds no UsageLog row for them.
C35_SweepOnlyExpired ==
    LET out == sweep_once(Store, now)
    IN /\ Len(out.sessions) = Len(sessions)
       /\ \A i \in SessionIds :
             (\/ /\ sessions[i].state = RUNNING
                 /\ sessions[i].heartbeat_at # NoTs
                 /\ now - sessions[i].heartbeat_at <= STALE_SECS
              \/ /\ sessions[i].state = RESERVED
                 /\ now <= sessions[i].reserved_until)
             => /\ out.sessions[i] = sessions[i]
                /\ \A k \in (Len(logs) + 1)..Len(out.logs) :
                      out.logs[k].session_id # i
       /\ \A k \in 1..Len(logs) : out.logs[k] = logs[k]

\* After a tick that closed a stale session: another session whose heartbeat
\* is exactly the threshold old is still RUNNING.
C35_Witness ==
    \E i, j \in SessionIds :
        /\ sessions[i].state = ENDED
        /\ sessions[i].started_at # NoTs
        /\ sessions[i].ended_at = sessions[i].heartbeat_at
        /\ now - sessions[i].heartbeat_at > STALE_SECS
        /\ \A k \in LogsOf(i) : logs[k].tag # TAG_NORMAL
        /\ sessions[j].state = RUNNING
        /\ now - sessions[j].heartbeat_at = STALE_SECS
        /\ LogsOf(j) = {}


\* C36: every UsageLog row has minutes >= 1, whichever path wrote it (the
\* reservation slice at start, session_end, the Sweeper's close of a stale
\* session, the Sweeper's expiry of a reservation).
C36_MinutesAtLeastOne ==
    \A k \in 1..Len(logs) : logs[k].minutes >= 1

\* A reservation row and the row of a session_end that came less than a
\* minute after the start, charged one minute.
C36_Witness ==
    \E k, r \in 1..Len(logs) :
        /\ logs[k].tag = TAG_NORMAL
        /\ logs[k].end_ts - logs[k].start_ts < SECS_PER_MIN
        /\ logs[k].minutes = 1
        /\ logs[r].tag = TAG_RESERVED
        /\ logs[r].minutes = (logs[r].end_ts - logs[r].start_ts) \div SECS_PER_MIN


\* C37: every reservation-tagged UsageLog row lies inside the reservation
\* window of its session: start_ts = reserved_from and end_ts <=
\* reserved_until, whether usage started or the Sweeper expired the
\* reservation.
C37_ReservationRowInWindow ==
    \A k \in 1..Len(logs) :
        logs[k].tag = TAG_RESERVED =>
            /\ logs[k].session_id \in SessionIds
            /\ sessions[logs[k].session_id].reserved_from # NoTs
            /\ logs[k].start_ts = sessions[logs[k].session_id].reserved_from
            /\ logs[k].end_ts <= sessions[logs[k].session_id].reserved_until

\* One row written at a start on the last instant of the window, and one
\* written by the Sweeper for a reservation that was never used.
C37_Witness ==
    \E k, r \in 1..Len(logs) :
        /\ logs[k].tag = TAG_RESERVED
        /\ sessions[logs[k].session_id].started_at = logs[k].end_ts
        /\ logs[k].end_ts = sessions[logs[k].session_id].reserved_until
        /\ logs[r].tag = TAG_RESERVED
        /\ NeverStarted(sessions[logs[r].session_id])
        /\ logs[r].end_ts = sessions[logs[r].session_id].reserved_until


\* C38: when a pair has several RUNNING sessions, one session_end closes
\* exactly one of them, one whose started_at is the latest, and adds exactly
\* one UsageLog row, for that session; a session_heartbeat refreshes only a
\* RUNNING session with the latest started_at; every other session is
\* unchanged.
SeveralRunning(u, g) ==
    Cardinality({ i \in SessionIds : /\ sessions[i].user = u
                                     /\ sessions[i].gpu = g
                                     /\ sessions[i].state = RUNNING }) >= 2

IsLatestRunning(i, u, g) ==
    /\ sessions[i].user = u /\ sessions[i].gpu = g
    /\ sessions[i].state = RUNNING
    /\ \A j \in SessionIds :
          (sessions[j].user = u /\ sessions[j].gpu = g
             /\ sessions[j].state = RUNNING)
          => sessions[j].started_at <= sessions[i].started_at

C38_OnlyLatestRunning ==
    /\ \A p \in EndPayloads :
          SeveralRunning(p.user, p.gpu_uuid) =>
             \A pick \in LatestRunning(Store, p.user, p.gpu_uuid) :
                LET out == gpu_session_end(Store, p, pick)
                    c == out.resp.session_id
                IN /\ out.resp.ok
                   /\ c \in SessionIds
                   /\ IsLatestRunning(c, p.user, p.gpu_uuid)
                   /\ Len(out.store.sessions) = Len(sessions)
                   /\ out.store.sessions[c].state = ENDED
                   /\ \A j \in SessionIds \ {c} :
                         out.store.sessions[j] = sessions[j]
                   /\ Len(out.store.logs) = Len(logs) + 1
                   /\ \A k \in 1..Len(logs) : out.store.logs[k] = logs[k]
                   /\ out.store.logs[Len(logs) + 1].session_id = c
    /\ \A p \in HeartbeatPayloads :
          SeveralRunning(p.user, p.gpu_uuid) =>
             \A pick \in LatestRunning(Store, p.user, p.gpu_uuid) :
                LET out == Forbid(handle_session_heartbeat(Store, p, pick))
                    c == out.resp.session_id
                IN /\ out.resp.ok
                   /\ c \in SessionIds
                   /\ IsLatestRunning(c, p.user, p.gpu_uuid)
                   /\ Len(out.store.sessions) = Len(sessions)
                   /\ out.store.sessions[c] =
                         [sessions[c] EXCEPT !.heartbeat_at = p.ts]
                   /\ \A j \in SessionIds \ {c} :
                         out.store.sessions[j] = sessions[j]
                   /\ out.store.logs = logs

\* Two sessions of one pair were RUNNING; the one started later was ended with
\* its single row, the one started earlier is RUNNING as it was.
C38_Witness ==
    \E i, j \in SessionIds :
        /\ sessions[i].user = sessions[j].user
        /\ sessions[i].gpu = sessions[j].gpu
        /\ sessions[i].state = ENDED
        /\ sessions[j].state = RUNNING
        /\ sessions[j].started_at < sessions[i].started_at
        /\ sessions[j].heartbeat_at = sessions[j].started_at
        /\ Cardinality(LogsOf(i)) = 1
        /\ \A k \in LogsOf(i) : logs[k].tag = TAG_NORMAL
        /\ LogsOf(j) = {}


\* The requests the agent's last iteration posted to a path for key k.
PostedFor(ag, path, k) ==
    { i \in DOMAIN ag.posted :
        /\ ag.posted[i].path = path
        /\ ag.posted[i].payload.gpu_uuid = k[1]
        /\ ag.posted[i].payload.user = k[2] }

C40_EventUserCommitted ==
    /\ \A p \in StartPayloads :
         \A pick \in StartTargets(Store, p.user, p.gpu_uuid, p.started_at) :
            LET out == gpu_session_start(Store, p, pick)
            IN EventsOf(out) \subseteq out.store.users
    /\ \A p \in HeartbeatPayloads :
         \A pick \in LatestRunning(Store, p.user, p.gpu_uuid) :
            LET out == Forbid(handle_session_heartbeat(Store, p, pick))
            IN EventsOf(out) \subseteq out.store.users
    /\ \A p \in EndPayloads :
         \A pick \in LatestRunning(Store, p.user, p.gpu_uuid) :
            LET out == gpu_session_end(Store, p, pick)
            IN EventsOf(out) \subseteq out.store.users

====
